---- MODULE Spec2Model ----
(***************************************************************************)
(* vrc-vrpoker-stats: the log-to-hand reconstruction engine (package       *)
(* parser), the application service that feeds it (package application)    *)
(* and the GUI controller that shares a parser between goroutines          *)
(* (package ui).                                                           *)
(*                                                                         *)
(* A log line is modelled after tokenisation: its kind is the regular      *)
(* expression of parser.go that its body matches, and its fields are the   *)
(* captured groups.  A card token is the sequence of its characters and a  *)
(* card list is the sequence of the tokens between the commas, so that     *)
(* parseCard / parseCards are computed, not assumed.  A timestamp is a     *)
(* natural number (seconds); the zero time.Time is 0.                      *)
(***************************************************************************)
EXTENDS Integers, Sequences, FiniteSets, TLC

\* ------------------------------------------------------------------ bounds
\* Lines ingested after the initial prefix of a run, per specification.
MaxLines == 5
MaxPreflopLines == 5
MaxPotLines == 5
\* Blind amounts are 1..MaxBlind.
MaxBlind == 1
\* Seats are 1..MaxSeat.
MaxSeat == 2
\* Chip amounts are 0..MaxAmount.
MaxAmount == 3
\* Lines per ImportLines batch, and lines imported in a run.
MaxBatch == 2
MaxImportLines == 4
\* Lines of the log file that parseFullFile scans.
MaxFileLines == 2
\* Lines ingested after the initial prefix in the seat-bookkeeping runs.
MaxSeatLines == 4
\* Lines ingested after the initial prefix in the dropped-line runs.
MaxDroppedLines == 4
\* Lines ingested, and accessor calls made, in the snapshot runs.
MaxSnapshotLines == 3
MaxCalls == 2
\* Scripted scenarios: the seat numbers they draw from and their length.
MaxScenarioSeat == 5
MaxScenarioLines == 10
\* The largest table a script seats.
MaxTable == 8
MaxShowdownLines == 4
\* Opportunity analyzer: seats and lines of the hands it replays.
MaxAnalyzerSeat == 3
MaxAnalyzerLines == 4
\* Statistics: lines after the blind of the first hand.
MaxStatsLines == 4
\* Service: ChangeLogFile calls of a run.
MaxChanges == 2
\* Service: lines imported while log files are changed.
MaxServiceLines == 2

Seats == 1..MaxSeat
Amounts == 0..MaxAmount
BlindAmounts == 1..MaxBlind

\* Card tokens as the log prints them; TokBad and TokShort are not cards.
TokAh == <<"A", "h">>
TokKd == <<"K", "d">>
Tok10s == <<"1", "0", "s">>
TokBad == <<"Z", "z">>
TokShort == <<"7">>

\* ------------------------------------------------------- enumerated types
StreetPreFlop == 0
StreetFlop == 1
StreetTurn == 2
StreetRiver == 3
StreetShowdown == 4

ActionBlindSB == "blind_sb"
ActionBlindBB == "blind_bb"
ActionCheck == "check"
ActionCall == "call"
ActionBet == "bet"
ActionRaise == "raise"
ActionAllIn == "allin"
ActionFold == "fold"

PosUnknown == "?"
PosSB == "SB"
PosBB == "BB"
PosUTG == "UTG"
PosUTG1 == "UTG+1"
PosMP == "MP"
PosMP1 == "MP+1"
PosHJ == "HJ"
PosCO == "CO"
PosBTN == "BTN"

VRPokerWorldID == "wrld_vrpoker"
OtherWorldID == "wrld_other"

\* ------------------------------------------------------------ map helpers
EmptyMap == [k \in {} |-> 0]
MapPut(m, k, v) == [x \in (DOMAIN m) \cup {k} |-> IF x = k THEN v ELSE m[x]]
MapGet(m, k, default) == IF k \in DOMAIN m THEN m[k] ELSE default

\* --------------------------------------------------------- card decoder
EmptyCard == [Rank |-> <<>>, Suit |-> ""]

validSuits == {"h", "d", "c", "s"}
validRanks ==
    {<<"2">>, <<"3">>, <<"4">>, <<"5">>, <<"6">>, <<"7">>, <<"8">>, <<"9">>,
     <<"1", "0">>, <<"J">>, <<"Q">>, <<"K">>, <<"A">>}

\* parseCard: a token shorter than 2 characters, or with a rank or suit
\* outside the closed sets, yields the empty card and a nil error.
parseCard(s) ==
    IF Len(s) < 2 THEN EmptyCard
    ELSE LET suit == s[Len(s)]
             rank == SubSeq(s, 1, Len(s) - 1)
         IN IF suit \notin validSuits \/ rank \notin validRanks
            THEN EmptyCard
            ELSE [Rank |-> rank, Suit |-> suit]

\* parseCard's error result: nil on every path.
parseCardErr(s) == FALSE

\* parseCards: decodes every part; fails iff some parseCard reports an error.
parseCards(parts) == [i \in 1..Len(parts) |-> parseCard(parts[i])]
parseCardsErr(parts) == \E i \in 1..Len(parts) : parseCardErr(parts[i])

\* cardsMatch: equal length and pointwise equal rank and suit.
cardsMatch(a, b) ==
    /\ Len(a) = Len(b)
    /\ \A i \in 1..Len(a) : a[i].Rank = b[i].Rank /\ a[i].Suit = b[i].Suit

\* sortInts: insertion sort, ascending.
RECURSIVE insertSorted(_, _)
insertSorted(x, s) ==
    IF s = <<>> THEN <<x>>
    ELSE IF x < Head(s) THEN <<x>> \o s
    ELSE <<Head(s)>> \o insertSorted(x, Tail(s))

RECURSIVE sortInts(_)
sortInts(s) ==
    IF s = <<>> THEN <<>>
    ELSE insertSorted(s[Len(s)], sortInts(SubSeq(s, 1, Len(s) - 1)))

SeqContains(s, x) == \E i \in 1..Len(s) : s[i] = x
IndexOf(s, x) == IF SeqContains(s, x)
                 THEN CHOOSE i \in 1..Len(s) : s[i] = x /\ \A j \in 1..(i - 1) : s[j] # x
                 ELSE 0

\* ------------------------------------------------------------ parser state
\* A nullable pointer is a sequence of length 0 (nil) or 1.
NewParser ==
    [ result            |-> [LocalPlayerSeat |-> -1, Hands |-> <<>>, InPokerWorld |-> FALSE],
      currentHand       |-> <<>>,
      handIDCounter     |-> 0,
      inPokerWorld      |-> FALSE,
      currentStreet     |-> StreetPreFlop,
      streetBetAmount   |-> 0,
      foldedThisHand    |-> {},
      pendingWinners    |-> <<>>,
      lastTimestamp     |-> 0,
      streetBets        |-> EmptyMap,
      pfActions         |-> <<>>,
      pendingLocalCards |-> <<>>,
      lastBlindSeat     |-> 0 ]

Cur(p) == p.currentHand[1]
SetCur(p, h) == [p EXCEPT !.currentHand = <<h>>]

NewPlayerHandInfo(seat) ==
    [ SeatID |-> seat, Actions |-> <<>>, HoleCards |-> <<>>, Position |-> PosUnknown,
      VPIP |-> FALSE, PFR |-> FALSE, ThreeBet |-> FALSE, FoldedPF |-> FALSE,
      FoldTo3Bet |-> FALSE, ShowedDown |-> FALSE, Won |-> FALSE, PotWon |-> 0 ]

PlayerAction(ts, seat, street, action, amount) ==
    [Timestamp |-> ts, PlayerID |-> seat, Street |-> street, Action |-> action, Amount |-> amount]

pfAction(seat, action, amount) == [seatID |-> seat, action |-> action, amount |-> amount]
pendingWin(seat, amount) == [seatID |-> seat, amount |-> amount]

\* Mutant: a seat that already has an entry is appended to ActiveSeats again.
ensurePlayerH_AppendsAgain(h, seat) ==
    IF seat \in DOMAIN h.Players THEN [h EXCEPT !.ActiveSeats = Append(@, seat)]
    ELSE [h EXCEPT !.Players = MapPut(@, seat, NewPlayerHandInfo(seat)),
                   !.ActiveSeats = Append(@, seat)]

\* ensurePlayer on the hand the parser points to.
ensurePlayerH(h, seat) ==
    IF seat \in DOMAIN h.Players THEN h
    ELSE [h EXCEPT !.Players = MapPut(@, seat, NewPlayerHandInfo(seat)),
                   !.ActiveSeats = IF SeqContains(@, seat) THEN @ ELSE Append(@, seat)]

ensurePlayer(p, seat) ==
    IF p.currentHand = <<>> THEN p ELSE SetCur(p, ensurePlayerH(Cur(p), seat))

appendAction(h, seat, act) == [h EXCEPT !.Players[seat].Actions = Append(@, act)]

\* Mutant: the pending local cards survive the assignment.
assignLocalCards_KeepsPending(p, seat, cards) ==
    [p EXCEPT !.currentHand =
                 << [ensurePlayerH(Cur(p), seat) EXCEPT !.Players[seat].HoleCards = cards,
                                                       !.LocalPlayerSeat = seat] >>,
              !.result.LocalPlayerSeat = seat]

\* assignLocalCards: only called while a hand is in progress.
assignLocalCards(p, seat, cards) ==
    LET h1 == ensurePlayerH(Cur(p), seat)
        h2 == [h1 EXCEPT !.Players[seat].HoleCards = cards, !.LocalPlayerSeat = seat]
    IN [p EXCEPT !.currentHand = <<h2>>,
                 !.result.LocalPlayerSeat = seat,
                 !.pendingLocalCards = <<>>]

\* Mutant: an amount equal to the street bet is a raise.
classifyAction_EqualIsRaise(p, seat, amount) ==
    IF amount = 0 THEN ActionCheck
    ELSE IF p.streetBetAmount = 0 THEN ActionBet
    ELSE IF amount >= p.streetBetAmount THEN ActionRaise
    ELSE ActionCall

classifyAction(p, seat, amount) ==
    IF amount = 0 THEN ActionCheck
    ELSE IF p.streetBetAmount = 0 THEN ActionBet
    ELSE IF amount > p.streetBetAmount THEN ActionRaise
    ELSE ActionCall

startNewHand(p, ts) ==
    [p EXCEPT !.handIDCounter = @ + 1,
              !.currentHand = << [ ID              |-> p.handIDCounter + 1,
                                   StartTime       |-> ts,
                                   EndTime         |-> 0,
                                   LocalPlayerSeat |-> p.result.LocalPlayerSeat,
                                   Players         |-> EmptyMap,
                                   ActiveSeats     |-> <<>>,
                                   CommunityCards  |-> <<>>,
                                   SBSeat          |-> -1,
                                   BBSeat          |-> -1,
                                   WinnerSeat      |-> -1,
                                   WinType         |-> "",
                                   TotalPot        |-> 0,
                                   NumPlayers      |-> 0,
                                   IsComplete      |-> FALSE ] >>,
              !.currentStreet = StreetPreFlop,
              !.streetBets = EmptyMap,
              !.streetBetAmount = 0,
              !.pfActions = <<>>,
              !.foldedThisHand = {},
              !.pendingWinners = <<>>,
              !.pendingLocalCards = <<>>,
              !.lastBlindSeat = -1]

\* ------------------------------------------------- positions (position.go)
\* Mutant: the rows for 6, 7 and 8 seats without the hijack label.
positionOrder_NoHijack(n) ==
    CASE n = 2 -> <<PosSB, PosBTN>>
      [] n = 3 -> <<PosSB, PosBB, PosBTN>>
      [] n = 4 -> <<PosSB, PosBB, PosUTG, PosBTN>>
      [] n = 5 -> <<PosSB, PosBB, PosUTG, PosMP, PosBTN>>
      [] n = 6 -> <<PosSB, PosBB, PosUTG, PosMP, PosCO, PosBTN>>
      [] n = 7 -> <<PosSB, PosBB, PosUTG, PosUTG1, PosMP, PosCO, PosBTN>>
      [] n = 8 -> <<PosSB, PosBB, PosUTG, PosUTG1, PosMP, PosMP1, PosCO, PosBTN>>
      [] OTHER -> [i \in 1..n |-> PosUnknown]

positionOrder(n) ==
    CASE n = 2 -> <<PosSB, PosBTN>>
      [] n = 3 -> <<PosSB, PosBB, PosBTN>>
      [] n = 4 -> <<PosSB, PosBB, PosUTG, PosBTN>>
      [] n = 5 -> <<PosSB, PosBB, PosUTG, PosMP, PosBTN>>
      [] n = 6 -> <<PosSB, PosBB, PosUTG, PosHJ, PosCO, PosBTN>>
      [] n = 7 -> <<PosSB, PosBB, PosUTG, PosUTG1, PosHJ, PosCO, PosBTN>>
      [] n = 8 -> <<PosSB, PosBB, PosUTG, PosUTG1, PosMP, PosHJ, PosCO, PosBTN>>
      [] OTHER -> [i \in 1..n |->
                     \* later writes win: result[n-3], result[n-2], result[n-1]
                     \* are assigned after result[0] and result[1]
                     IF n > 4 /\ i = n - 2 THEN PosMP
                     ELSE IF n > 3 /\ i = n - 1 THEN PosCO
                     ELSE IF n > 2 /\ i = n THEN PosBTN
                     ELSE IF n > 1 /\ i = 2 THEN PosBB
                     ELSE IF i = 1 THEN PosSB
                     ELSE PosUnknown]

assignPositions(h) ==
    IF h.SBSeat < 0 \/ h.BBSeat < 0 THEN h
    ELSE LET allSeats == sortInts(h.ActiveSeats)
             sbIdx == IndexOf(allSeats, h.SBSeat)
         IN IF sbIdx = 0 THEN h
            ELSE LET rotated == SubSeq(allSeats, sbIdx, Len(allSeats))
                                  \o SubSeq(allSeats, 1, sbIdx - 1)
                     positions == positionOrder(Len(rotated))
                 IN [h EXCEPT !.Players =
                       [s \in DOMAIN h.Players |->
                          IF SeqContains(rotated, s) /\ IndexOf(rotated, s) <= Len(positions)
                          THEN [h.Players[s] EXCEPT !.Position = positions[IndexOf(rotated, s)]]
                          ELSE h.Players[s]]]

\* ------------------------------------------- pre-flop aggression statistics
\* bbAmount: the amount of the first blind-BB action of the BB seat, else 0.
bbAmount(h) ==
    IF h.BBSeat >= 0 /\ h.BBSeat \in DOMAIN h.Players
    THEN LET acts == h.Players[h.BBSeat].Actions
             idx == {i \in 1..Len(acts) : acts[i].Action = ActionBlindBB}
         IN IF idx = {} THEN 0
            ELSE acts[CHOOSE i \in idx : \A j \in idx : i <= j].Amount
    ELSE 0

\* Mutant: a 3-bet sets the three-bet flag without VPIP.
preflopRaise_ThreeBetWithoutVPIP(st, s) ==
    LET lvl == st.betLevel + 1
    IN [st EXCEPT
          !.betLevel = lvl,
          !.raiserAtLevel = MapPut(@, lvl, s),
          !.h.Players[s].PFR = IF lvl = 2 THEN TRUE ELSE @,
          !.h.Players[s].ThreeBet = IF lvl = 3 THEN TRUE ELSE @,
          !.h.Players[s].VPIP = IF lvl = 3 THEN @ ELSE TRUE]

\* The raise/bet case of calculatePreflopStats: the bet level goes up by one
\* and the seat is recorded as the raiser at the new level.
preflopRaise(st, s) ==
    LET lvl == st.betLevel + 1
    IN [st EXCEPT
          !.betLevel = lvl,
          !.raiserAtLevel = MapPut(@, lvl, s),
          !.h.Players[s].PFR = IF lvl = 2 THEN TRUE ELSE @,
          !.h.Players[s].ThreeBet = IF lvl = 3 THEN TRUE ELSE @,
          !.h.Players[s].VPIP = TRUE]

\* Mutant: every call is voluntary.
preflopCall_AlwaysVPIP(st, act) == [st EXCEPT !.h.Players[act.seatID].VPIP = TRUE]

\* The call case of calculatePreflopStats: the SB seat completing to the BB
\* and the BB seat closing the action at level <= 2 are not voluntary.
preflopCall(st, act) ==
    LET s == act.seatID
    IN IF s = st.h.SBSeat /\ act.amount <= bbAmount(st.h)
       THEN [st EXCEPT !.h.Players[s].VPIP = IF st.betLevel > 2 THEN TRUE ELSE @]
       ELSE IF s = st.h.BBSeat /\ st.betLevel <= 2
       THEN st
       ELSE [st EXCEPT !.h.Players[s].VPIP = TRUE]

\* One iteration of the loop of calculatePreflopStats over p.pfActions.
\* st = [h, betLevel, raiserAtLevel].
preflopStep(st, act) ==
    LET h == st.h
        s == act.seatID
        isSB == s = h.SBSeat
        isBB == s = h.BBSeat
    IN IF s \notin DOMAIN h.Players THEN st
       ELSE CASE act.action = ActionBlindSB ->
                   [st EXCEPT !.betLevel = 1]
              [] act.action = ActionBlindBB ->
                   [st EXCEPT !.betLevel = IF @ < 2 THEN 2 ELSE @]
              [] act.action \in {ActionRaise, ActionBet} -> preflopRaise(st, s)
              [] act.action = ActionCall -> preflopCall(st, act)
              [] act.action = ActionFold ->
                   IF /\ st.betLevel >= 3
                      /\ (st.betLevel - 1) \in DOMAIN st.raiserAtLevel
                      /\ st.raiserAtLevel[st.betLevel - 1] = s
                   THEN [st EXCEPT !.h.Players[s].FoldTo3Bet = TRUE]
                   ELSE st
              [] OTHER -> st

RECURSIVE preflopLoop(_, _)
preflopLoop(st, acts) ==
    IF acts = <<>> THEN st ELSE preflopLoop(preflopStep(st, Head(acts)), Tail(acts))

\* calculatePreflopStats: betLevel starts at 1 with or without blinds.
calculatePreflopStats(p, h) ==
    IF Len(p.pfActions) = 0 THEN h
    ELSE preflopLoop([h |-> h, betLevel |-> 1, raiserAtLevel |-> EmptyMap], p.pfActions).h

\* ----------------------------------------------------------- blind inference
\* The seat of the first pre-flop action that is not a blind post, else -1.
firstActor(acts) ==
    LET idx == {i \in 1..Len(acts) : acts[i].action \notin {ActionBlindSB, ActionBlindBB}}
    IN IF idx = {} THEN -1
       ELSE acts[CHOOSE i \in idx : \A j \in idx : i <= j].seatID

\* Mutant: the first actor itself is taken as the BB and its predecessor as SB.
blindsBefore_FirstActorIsBB(h, seats, idx) ==
    [h EXCEPT !.BBSeat = seats[idx],
              !.SBSeat = seats[((idx - 2 + Len(seats)) % Len(seats)) + 1]]

\* Last step of inferBlindsFromPreflop: idx is the place (from 1) of the
\* first actor in the sorted seats; BB is the seat before it, SB two before.
blindsBefore(h, seats, idx) ==
    [h EXCEPT !.BBSeat = seats[((idx - 2 + Len(seats)) % Len(seats)) + 1],
              !.SBSeat = seats[((idx - 3 + Len(seats)) % Len(seats)) + 1]]

\* Mutant: a missing BB is taken from the seat before the SB.
inferFromSeats_BBBeforeSB(h, seats, firstSeat) ==
    IF Len(seats) < 2 THEN h
    ELSE IF h.SBSeat >= 0 /\ h.BBSeat < 0 /\ IndexOf(seats, h.SBSeat) > 0
    THEN [h EXCEPT !.BBSeat =
             seats[((IndexOf(seats, h.SBSeat) - 2 + Len(seats)) % Len(seats)) + 1]]
    ELSE IF h.BBSeat >= 0 /\ h.SBSeat < 0 /\ IndexOf(seats, h.BBSeat) > 0
    THEN [h EXCEPT !.SBSeat =
             seats[((IndexOf(seats, h.BBSeat) - 2 + Len(seats)) % Len(seats)) + 1]]
    ELSE IF firstSeat < 0 \/ IndexOf(seats, firstSeat) = 0 THEN h
    ELSE blindsBefore(h, seats, IndexOf(seats, firstSeat))

inferFromSeats(h, seats, firstSeat) ==
    IF Len(seats) < 2 THEN h
    ELSE IF h.SBSeat >= 0 /\ h.BBSeat < 0 /\ IndexOf(seats, h.SBSeat) > 0
    THEN [h EXCEPT !.BBSeat = seats[(IndexOf(seats, h.SBSeat) % Len(seats)) + 1]]
    ELSE IF h.BBSeat >= 0 /\ h.SBSeat < 0 /\ IndexOf(seats, h.BBSeat) > 0
    THEN [h EXCEPT !.SBSeat =
             seats[((IndexOf(seats, h.BBSeat) - 2 + Len(seats)) % Len(seats)) + 1]]
    ELSE IF firstSeat < 0 \/ IndexOf(seats, firstSeat) = 0 THEN h
    ELSE blindsBefore(h, seats, IndexOf(seats, firstSeat))

\* inferBlindsFromPreflop: the hand with the blinds it writes (the boolean
\* result is whether the hand changed).
inferBlindsFromPreflop(p, h) ==
    IF h.SBSeat >= 0 /\ h.BBSeat >= 0 THEN h
    ELSE inferFromSeats(h, sortInts(h.ActiveSeats), firstActor(p.pfActions))

\* The finalization step "run blind inference", between the player count
\* and the position assignment.
runBlindInference(p, h) == inferBlindsFromPreflop(p, h)

\* ------------------------------------------------------------ finalization
\* Mutant: a winner line overwrites the seat's pot_won instead of adding to it.
RECURSIVE applyPendingWinners_Overwrite(_, _)
applyPendingWinners_Overwrite(h, ws) ==
    IF ws = <<>> THEN h
    ELSE LET pw == Head(ws)
             h1 == ensurePlayerH(h, pw.seatID)
             h2 == [h1 EXCEPT !.Players[pw.seatID].Won = TRUE,
                              !.Players[pw.seatID].PotWon = pw.amount,
                              !.TotalPot = @ + pw.amount,
                              !.WinnerSeat = pw.seatID]
         IN applyPendingWinners_Overwrite(h2, Tail(ws))

\* Mutant: the winner's chips are credited without the won flag.
RECURSIVE applyPendingWinners_NoWonFlag(_, _)
applyPendingWinners_NoWonFlag(h, ws) ==
    IF ws = <<>> THEN h
    ELSE LET pw == Head(ws)
             h1 == ensurePlayerH(h, pw.seatID)
             h2 == [h1 EXCEPT !.Players[pw.seatID].PotWon = @ + pw.amount,
                              !.TotalPot = @ + pw.amount,
                              !.WinnerSeat = pw.seatID]
         IN applyPendingWinners_NoWonFlag(h2, Tail(ws))

RECURSIVE applyPendingWinners(_, _)
applyPendingWinners(h, ws) ==
    IF ws = <<>> THEN h
    ELSE LET pw == Head(ws)
             h1 == ensurePlayerH(h, pw.seatID)
             h2 == [h1 EXCEPT !.Players[pw.seatID].Won = TRUE,
                              !.Players[pw.seatID].PotWon = @ + pw.amount,
                              !.TotalPot = @ + pw.amount,
                              !.WinnerSeat = pw.seatID]
         IN applyPendingWinners(h2, Tail(ws))

inferWinType(h) ==
    IF h.WinType = ""
    THEN [h EXCEPT !.WinType = IF Len(h.CommunityCards) >= 3 THEN "showdown" ELSE "fold"]
    ELSE h

\* Mutant: only a declared winner completes a hand.
isComplete_WinnersOnly(q, h) == Len(q.pendingWinners) > 0

\* is_complete: the hand has a pending winner or a community card.
isComplete(q, h) == Len(q.pendingWinners) > 0 \/ Len(h.CommunityCards) > 0

\* The hand as finalizeCurrentHand leaves it, before the decision to keep it.
\* Requires a hand in progress.
finalizeHand(p) ==
    LET p1 == IF p.pendingLocalCards # <<>> /\ p.result.LocalPlayerSeat >= 0
              THEN assignLocalCards(p, p.result.LocalPlayerSeat, p.pendingLocalCards)
              ELSE p
        h1 == applyPendingWinners([Cur(p1) EXCEPT !.TotalPot = 0], p1.pendingWinners)
        h2 == inferWinType(h1)
        h3 == [h2 EXCEPT !.NumPlayers = Len(h2.ActiveSeats)]
        h4 == assignPositions(runBlindInference(p1, h3))
        h5 == calculatePreflopStats(p1, h4)
        h6 == [h5 EXCEPT !.EndTime = p1.lastTimestamp,
                         !.IsComplete = isComplete(p1, h5)]
    IN SetCur(p1, h6)

\* Mutant: keeps every hand whose local seat is known, entry or not.
keepHand_NoEntryCheck(h) == h.LocalPlayerSeat >= 0

\* Only hands in which the local player has an entry are kept.
keepHand(h) == h.LocalPlayerSeat >= 0 /\ h.LocalPlayerSeat \in DOMAIN h.Players

\* Mutant: appends the hand but leaves it the current hand.
finalizeCurrentHand_KeepsCurrent(p) ==
    IF p.currentHand = <<>> THEN p
    ELSE LET q == finalizeHand(p)
             h == Cur(q)
         IN [q EXCEPT !.result.Hands = IF keepHand(h) THEN Append(@, h) ELSE @,
                      !.pendingLocalCards = <<>>]

\* Mutant: the hand is appended, but the parser goes on pointing to it.
releaseHand_KeepsPointer(q) ==
    [q EXCEPT !.result.Hands = IF keepHand(Cur(q)) THEN Append(@, Cur(q)) ELSE @,
              !.pendingLocalCards = <<>>]

\* The end of finalizeCurrentHand: the hand is appended if it is kept, and
\* the parser no longer points to it.
releaseHand(q) ==
    [q EXCEPT !.result.Hands = IF keepHand(Cur(q)) THEN Append(@, Cur(q)) ELSE @,
              !.currentHand = <<>>,
              !.pendingLocalCards = <<>>]

finalizeCurrentHand(p) ==
    IF p.currentHand = <<>> THEN p ELSE releaseHand(finalizeHand(p))

\* ------------------------------------------------------------ log lines
\* kind names the pattern the body matches; "Other" is a timestamped body
\* that matches no pattern, "NoTimestamp" a line without the prefix.
Line(kind, ts, seat, amount, cards, world) ==
    [kind |-> kind, ts |-> ts, seat |-> seat, amount |-> amount, cards |-> cards, world |-> world]

\* ------------------------------------------------------- processPokerEvent
onDrawLocal(p, cards) ==
    LET p1 == [p EXCEPT !.pendingLocalCards = cards]
        localSeat == p.result.LocalPlayerSeat
    IN IF localSeat >= 0 THEN assignLocalCards(p1, localSeat, cards)
       ELSE IF p.lastBlindSeat >= 0 THEN assignLocalCards(p1, p.lastBlindSeat, cards)
       ELSE p1

onBlind(p, ts, seat, amount, action) ==
    LET h0 == IF action = ActionBlindSB
              THEN [Cur(p) EXCEPT !.SBSeat = seat]
              ELSE [Cur(p) EXCEPT !.BBSeat = seat]
        h1 == ensurePlayerH(h0, seat)
        h2 == appendAction(h1, seat, PlayerAction(ts, seat, StreetPreFlop, action, amount))
    IN [p EXCEPT !.currentHand = <<h2>>,
                 !.streetBets = MapPut(@, seat, amount),
                 !.streetBetAmount = IF @ < amount THEN amount ELSE @,
                 !.pfActions = Append(@, pfAction(seat, action, amount)),
                 !.lastBlindSeat = seat]

onCommunity(p, card) ==
    LET h1 == [Cur(p) EXCEPT !.CommunityCards = Append(@, card)]
        n == Len(h1.CommunityCards)
    IN [p EXCEPT !.currentHand = <<h1>>,
                 !.currentStreet =
                     IF n \in {1, 2, 3} THEN (IF @ < StreetFlop THEN StreetFlop ELSE @)
                     ELSE IF n = 4 THEN StreetTurn
                     ELSE IF n = 5 THEN StreetRiver
                     ELSE @]

onStreetBoundary(p) == [p EXCEPT !.streetBets = EmptyMap, !.streetBetAmount = 0]

onFolded(p, ts, seat) ==
    LET h1 == ensurePlayerH(Cur(p), seat)
        h2 == appendAction(h1, seat, PlayerAction(ts, seat, p.currentStreet, ActionFold, 0))
        pre == p.currentStreet = StreetPreFlop
        h3 == IF pre THEN [h2 EXCEPT !.Players[seat].FoldedPF = TRUE] ELSE h2
    IN [p EXCEPT !.foldedThisHand = @ \cup {seat},
                 !.currentHand = <<h3>>,
                 !.pfActions = IF pre THEN Append(@, pfAction(seat, ActionFold, 0)) ELSE @]

\* Mutant: the End Turn of a folded seat is recorded like any other.
onEndTurn_AfterFoldToo(p, ts, seat, amount) ==
    [p EXCEPT !.currentHand =
                 << appendAction(ensurePlayerH(Cur(p), seat), seat,
                                 PlayerAction(ts, seat, p.currentStreet,
                                              classifyAction(p, seat, amount), amount)) >>,
              !.streetBetAmount = IF amount > @ THEN amount ELSE @,
              !.streetBets = MapPut(@, seat, amount),
              !.pfActions = IF p.currentStreet = StreetPreFlop
                            THEN Append(@, pfAction(seat, classifyAction(p, seat, amount), amount))
                            ELSE @]

onEndTurn(p, ts, seat, amount) ==
    IF seat \in p.foldedThisHand THEN p
    ELSE LET action == classifyAction(p, seat, amount)
             h1 == ensurePlayerH(Cur(p), seat)
             h2 == appendAction(h1, seat, PlayerAction(ts, seat, p.currentStreet, action, amount))
         IN [p EXCEPT !.currentHand = <<h2>>,
                      !.streetBetAmount = IF amount > @ THEN amount ELSE @,
                      !.streetBets = MapPut(@, seat, amount),
                      !.pfActions = IF p.currentStreet = StreetPreFlop
                                    THEN Append(@, pfAction(seat, action, amount))
                                    ELSE @]

onShowHoleCards(p, seat, cards) ==
    LET h1 == [ensurePlayerH(Cur(p), seat) EXCEPT !.Players[seat].ShowedDown = TRUE]
        p1 == [p EXCEPT !.currentHand = <<h1>>, !.currentStreet = StreetShowdown]
    IN IF p.pendingLocalCards # <<>> /\ cardsMatch(p.pendingLocalCards, cards)
       THEN assignLocalCards(
                [p1 EXCEPT !.result.LocalPlayerSeat = IF @ < 0 THEN seat ELSE @],
                seat, cards)
       ELSE IF Len(h1.Players[seat].HoleCards) = 0
       THEN SetCur(p1, [h1 EXCEPT !.Players[seat].HoleCards = cards])
       ELSE p1

onPotWinner(p, seat, amount) ==
    [p EXCEPT !.pendingWinners = Append(@, pendingWin(seat, amount)),
              !.currentHand = << [Cur(p) EXCEPT !.WinType = IF @ = "" THEN "showdown" ELSE @] >>]

\* Mutant: a fold-winner line keeps a win type that is already set.
onPotManager_KeepsWinType(p, seat, amount) ==
    [p EXCEPT !.pendingWinners = Append(@, pendingWin(seat, amount)),
              !.currentHand = << [Cur(p) EXCEPT !.WinType = IF @ = "" THEN "fold" ELSE @] >>]

onPotManager(p, seat, amount) ==
    [p EXCEPT !.pendingWinners = Append(@, pendingWin(seat, amount)),
              !.currentHand = << [Cur(p) EXCEPT !.WinType = "fold"] >>]

processPokerEvent(p, ts, l) ==
    IF l.kind = "NewGame" THEN startNewHand(finalizeCurrentHand(p), ts)
    ELSE IF p.currentHand = <<>> THEN p
    ELSE CASE l.kind = "DrawLocal" ->
                IF parseCardsErr(l.cards) THEN p ELSE onDrawLocal(p, parseCards(l.cards))
           [] l.kind = "SB" -> onBlind(p, ts, l.seat, l.amount, ActionBlindSB)
           [] l.kind = "BB" -> onBlind(p, ts, l.seat, l.amount, ActionBlindBB)
           [] l.kind = "Community" ->
                IF parseCardErr(l.cards[1]) THEN p ELSE onCommunity(p, parseCard(l.cards[1]))
           [] l.kind \in {"NextPhase", "CollectingBets"} -> onStreetBoundary(p)
           [] l.kind = "Folded" -> onFolded(p, ts, l.seat)
           [] l.kind = "EndTurn" -> onEndTurn(p, ts, l.seat, l.amount)
           [] l.kind = "ShowHole" ->
                IF parseCardsErr(l.cards) THEN p ELSE onShowHoleCards(p, l.seat, parseCards(l.cards))
           [] l.kind = "FoldToOne" -> [p EXCEPT !.currentStreet = StreetShowdown]
           [] l.kind = "PotWinner" -> onPotWinner(p, l.seat, l.amount)
           [] l.kind = "PotManager" -> onPotManager(p, l.seat, l.amount)
           [] OTHER -> p

\* processPokerEvent's error result: every return statement returns nil.
processPokerEventErr(p, l) == FALSE

\* ---------------------------------------------------------------- ParseLine
\* Mutant: a timestamped line that matches no pattern ends the hand.
ParseLine_UnmatchedEndsHand(p, l) ==
    IF l.kind = "NoTimestamp" THEN p
    ELSE LET p1 == [p EXCEPT !.lastTimestamp = l.ts]
         IN CASE l.kind = "Joining" ->
                   [p1 EXCEPT !.inPokerWorld = (l.world = VRPokerWorldID),
                              !.result.InPokerWorld = (l.world = VRPokerWorldID)]
              [] l.kind = "OnLeftRoom" ->
                   [(IF p1.inPokerWorld THEN finalizeCurrentHand(p1) ELSE p1)
                      EXCEPT !.inPokerWorld = FALSE, !.result.InPokerWorld = FALSE]
              [] l.kind = "Other" -> finalizeCurrentHand(p1)
              [] OTHER -> processPokerEvent(p1, l.ts, l)

\* A line is "NoTimestamp" when it does not match the timestamp prefix or
\* when its date does not parse: both return before any state is written.
ParseLine(p, l) ==
    IF l.kind = "NoTimestamp" THEN p
    ELSE LET p1 == [p EXCEPT !.lastTimestamp = l.ts]
         IN CASE l.kind = "Joining" ->
                   [p1 EXCEPT !.inPokerWorld = (l.world = VRPokerWorldID),
                              !.result.InPokerWorld = (l.world = VRPokerWorldID)]
              [] l.kind = "OnLeftRoom" ->
                   [(IF p1.inPokerWorld THEN finalizeCurrentHand(p1) ELSE p1)
                      EXCEPT !.inPokerWorld = FALSE, !.result.InPokerWorld = FALSE]
              [] OTHER -> processPokerEvent(p1, l.ts, l)

\* ParseLine's error result: nil, or what processPokerEvent returns.
ParseLineErr(p, l) ==
    IF l.kind \in {"NoTimestamp", "Joining", "OnLeftRoom"} THEN FALSE
    ELSE processPokerEventErr(p, l)

RECURSIVE ParseLines(_, _)
ParseLines(p, ls) == IF ls = <<>> THEN p ELSE ParseLines(ParseLine(p, Head(ls)), Tail(ls))

\* ParseReader: a fresh parser, every line, then finalize; returns the result.
ParseReader(ls) == finalizeCurrentHand(ParseLines(NewParser, ls)).result

GetLocalSeat(p) == p.result.LocalPlayerSeat
GetHands(p) == p.result.Hands
GetCurrentHand(p) == p.currentHand

\* ==================================================================== state
VARIABLES
    p,       \* the parser fed line by line (ParseReader / tail ingest)
    fin,     \* history: every hand finalizeCurrentHand completed, kept or not
    budget,  \* lines the run may still ingest
    eof,     \* ParseReader reached the end of the stream
    svc,     \* application.Service
    fed,     \* history: the lines imported into the service's parser
    app,     \* ui.App and its goroutines
    log,     \* history: the lines ParseLine was called with on p, in order
    objs,    \* the Hand objects the parser allocated, by address
    held,    \* what a caller holds from the snapshot accessors
    clf      \* the Service.ChangeLogFile call in progress, and its last return

vars == <<p, fin, budget, eof, svc, fed, app, log, objs, held, clf>>

\* startNewHand allocates one Hand per hand id, so the id of a hand stands
\* for the address of its object; currentHand and the elements of
\* result.Hands are pointers to these objects.
AddrOf(h) == h.ID

\* The objects reachable from a parser: the finalized hands and the hand in
\* progress.
HeapOf(q) ==
    [a \in {AddrOf(q.result.Hands[i]) : i \in 1..Len(q.result.Hands)}
            \cup {AddrOf(q.currentHand[i]) : i \in 1..Len(q.currentHand)} |->
        IF q.currentHand # <<>> /\ AddrOf(q.currentHand[1]) = a
        THEN q.currentHand[1]
        ELSE q.result.Hands[CHOOSE i \in 1..Len(q.result.Hands) :
                                AddrOf(q.result.Hands[i]) = a]]

\* The heap after a call that took the parser from q to q2: the call wrote
\* through q.currentHand (the writes of finalizeCurrentHand included, given
\* as done) and through q2.currentHand; no other object is written.
HeapAfter(heap, q, done, q2) ==
    LET h1 == IF q.currentHand # <<>> /\ done # <<>>
              THEN MapPut(heap, AddrOf(Cur(q)), done[1])
              ELSE heap
    IN IF q2.currentHand # <<>> THEN MapPut(h1, AddrOf(Cur(q2)), Cur(q2)) ELSE h1

\* Nothing obtained from the accessors yet.
NoHeld == [hands |-> <<>>, handsSeen |-> <<>>, cur |-> <<>>, curSeen |-> <<>>,
           seat |-> -1, calls |-> 0]

\* The timestamp of the next line: one second after the last one seen.
NextTs(q) == q.lastTimestamp + 1

\* The hand that was in progress in q is no longer the current hand of q2.
HandLeft(q, q2) ==
    /\ q.currentHand # <<>>
    /\ (q2.currentHand = <<>> \/ Cur(q2).ID # Cur(q).ID)

\* The run may ingest another line.
CanIngest == budget > 0 /\ ~eof

\* One line ingested by the parser p.
Ingest(l) ==
    /\ p' = ParseLine(p, l)
    /\ budget' = budget - 1
    /\ objs' = HeapAfter(objs, p,
                         IF HandLeft(p, p')
                         THEN <<Cur(finalizeHand([p EXCEPT !.lastTimestamp = l.ts]))>>
                         ELSE <<>>,
                         p')
    /\ fin' = IF HandLeft(p, p') THEN Append(fin, objs'[AddrOf(Cur(p))]) ELSE fin
    /\ log' = Append(log, l)
    /\ UNCHANGED <<eof, svc, fed, app, held, clf>>

NoCards == <<>>

NewGame ==
    /\ CanIngest
    /\ Ingest(Line("NewGame", NextTs(p), 0, 0, NoCards, ""))

DrawLocalHoleCards ==
    /\ CanIngest
    /\ \E cs \in {<<TokAh, TokKd>>} :
          Ingest(Line("DrawLocal", NextTs(p), 0, 0, cs, ""))

PostSB ==
    /\ CanIngest
    /\ \E s \in Seats, a \in BlindAmounts :
          Ingest(Line("SB", NextTs(p), s, a, NoCards, ""))

PostBB ==
    /\ CanIngest
    /\ \E s \in Seats, a \in BlindAmounts :
          Ingest(Line("BB", NextTs(p), s, a, NoCards, ""))

CommunityCard ==
    /\ CanIngest
    /\ \E t \in {Tok10s} :
          Ingest(Line("Community", NextTs(p), 0, 0, <<t>>, ""))

StreetBoundary ==
    /\ CanIngest
    /\ \E k \in {"NextPhase", "CollectingBets"} :
          Ingest(Line(k, NextTs(p), 0, 0, NoCards, ""))

PlayerFolded ==
    /\ CanIngest
    /\ \E s \in Seats :
          Ingest(Line("Folded", NextTs(p), s, 0, NoCards, ""))

PlayerEndTurn ==
    /\ CanIngest
    /\ \E s \in Seats, a \in Amounts :
          Ingest(Line("EndTurn", NextTs(p), s, a, NoCards, ""))

ShowHoleCards ==
    /\ CanIngest
    /\ \E s \in Seats, cs \in {<<TokAh, TokKd>>, <<TokKd, TokAh>>} :
          Ingest(Line("ShowHole", NextTs(p), s, 0, cs, ""))

FoldToOne ==
    /\ CanIngest
    /\ Ingest(Line("FoldToOne", NextTs(p), 0, 0, NoCards, ""))

PotWinner ==
    /\ CanIngest
    /\ \E s \in Seats, a \in Amounts :
          Ingest(Line("PotWinner", NextTs(p), s, a, NoCards, ""))

PotManager ==
    /\ CanIngest
    /\ \E s \in Seats, a \in Amounts :
          Ingest(Line("PotManager", NextTs(p), s, a, NoCards, ""))

WorldJoining ==
    /\ CanIngest
    /\ \E w \in {VRPokerWorldID, OtherWorldID} :
          Ingest(Line("Joining", NextTs(p), 0, 0, NoCards, w))

WorldLeaving ==
    /\ CanIngest
    /\ Ingest(Line("OnLeftRoom", NextTs(p), 0, 0, NoCards, ""))

\* A timestamped line whose body matches none of the patterns.
UnmatchedLine ==
    /\ CanIngest
    /\ Ingest(Line("Other", NextTs(p), 0, 0, NoCards, ""))

\* A line without the timestamp prefix, or with a date that does not parse.
LineWithoutTimestamp ==
    /\ CanIngest
    /\ Ingest(Line("NoTimestamp", 0, 0, 0, NoCards, ""))

\* A card line with a token that is not a card.
MalformedCardLine ==
    /\ CanIngest
    /\ \/ \E t \in {TokBad, TokShort} :
             Ingest(Line("Community", NextTs(p), 0, 0, <<t>>, ""))
       \/ \E cs \in {<<TokAh, TokBad>>, <<TokShort, TokKd>>} :
             Ingest(Line("DrawLocal", NextTs(p), 0, 0, cs, ""))
       \/ \E s \in Seats, cs \in {<<TokAh, TokBad>>, <<TokShort, TokKd>>} :
             Ingest(Line("ShowHole", NextTs(p), s, 0, cs, ""))

\* ParseReader after its scan loop: finalize, then return the result.
EndOfStream ==
    /\ ~eof
    /\ p' = finalizeCurrentHand(p)
    /\ eof' = TRUE
    /\ objs' = HeapAfter(objs, p,
                         IF HandLeft(p, p') THEN <<Cur(finalizeHand(p))>> ELSE <<>>,
                         p')
    /\ fin' = IF HandLeft(p, p') THEN Append(fin, objs'[AddrOf(Cur(p))]) ELSE fin
    /\ UNCHANGED <<budget, svc, fed, app, log, held, clf>>

\* ------------------------------------------------------------ initial states
\* No ChangeLogFile call is running and none has returned.
NoCallFrame ==
    [ pc |-> "idle", path |-> "", next |-> NewParser, ret |-> "none", calls |-> 0,
      before |-> <<>>, fedBefore |-> 0, after |-> <<>>, fedAfter |-> 0 ]

NewService == [parser |-> NewParser, logPath |-> "", localSeat |-> -1]
\* ui.App as Run builds it, with its goroutines: "init" runs initLogFile,
\* "settings" the changeLogFile of the Settings tab, "tail" the watcher's
\* OnNewData callback, "ui" the Fyne main thread refreshing a tab.  parser is
\* the identity of the *parser.Parser that a.parser points to; ref is the
\* parser each goroutine loaded into its local p; inCall is the parser
\* method a goroutine is executing.
Threads == {"init", "settings", "tail", "ui"}
Loaders == {"init", "settings"}
NoThread == ""
NoCall == ""

NewApp ==
    [ mu      |-> NoThread,
      parser  |-> 1,
      watcher |-> FALSE,
      pc      |-> [t \in Threads |-> IF t \in Loaders THEN "start" ELSE "idle"],
      ref     |-> [t \in Threads |-> 0],
      left    |-> [t \in Threads |-> 0],
      inCall  |-> [t \in Threads |-> NoCall] ]

\* ImportLines between Lock and Unlock: every line of the batch goes to the
\* service's parser, then the local seat is read back.  The hands handed to
\* UpsertHands are GetHands of that parser.
\* Mutant: the batch ends like ParseReader, finalizing the hand in progress.
importLines_FinalizesAtBatchEnd(s, lines) ==
    LET q == finalizeCurrentHand(ParseLines(s.parser, lines))
    IN [s EXCEPT !.parser = q, !.localSeat = GetLocalSeat(q)]

importLines(s, lines) ==
    LET q == ParseLines(s.parser, lines)
    IN [s EXCEPT !.parser = q, !.localSeat = GetLocalSeat(q)]

\* A first hand in which seat 1 posts the small blind and draws: it makes
\* seat 1 the local seat.
LocalSeatPrefix ==
    << Line("NewGame", 1, 0, 0, NoCards, ""),
       Line("SB", 2, 1, 1, NoCards, ""),
       Line("DrawLocal", 3, 0, 0, <<TokAh, TokKd>>, "") >>

InitOthers == svc = NewService /\ fed = <<>> /\ app = NewApp /\ held = NoHeld /\ clf = NoCallFrame

\* The parser has been fed the lines of prefix, and nothing else.
Started(prefix) ==
    /\ p = ParseLines(NewParser, prefix)
    /\ log = prefix
    /\ objs = HeapOf(ParseLines(NewParser, prefix))

\* ------------------------------------------- specification: hand lifecycle
Init ==
    /\ \E prefix \in {<<>>, LocalSeatPrefix} : Started(prefix)
    /\ fin = <<>>
    /\ budget = MaxLines
    /\ eof = FALSE
    /\ InitOthers

Next ==
    \/ NewGame
    \/ DrawLocalHoleCards
    \/ PostSB
    \/ ShowHoleCards
    \/ WorldJoining
    \/ WorldLeaving
    \/ EndOfStream

Spec == Init /\ [][Next]_vars

\* ------------------------------------------------------------------ C1
\* C1: the finalized-hand list holds exactly the hands that, when they were
\* finalized, had a local seat >= 0 with a player entry in the hand, in the
\* order of finalization; every other finalized hand is absent from it.
IsLocalHand(h) == h.LocalPlayerSeat >= 0 /\ h.LocalPlayerSeat \in DOMAIN h.Players

C1_KeptIffLocalParticipant == p.result.Hands = SelectSeq(fin, IsLocalHand)

\* A hand was kept, one was discarded with the local seat unknown and one was
\* discarded with a known local seat that has no entry in it.
C1_Witness ==
    /\ Len(p.result.Hands) >= 1
    /\ \E i \in 1..Len(fin) : fin[i].LocalPlayerSeat < 0
    /\ \E i \in 1..Len(fin) :
          fin[i].LocalPlayerSeat >= 0 /\ fin[i].LocalPlayerSeat \notin DOMAIN fin[i].Players

\* ------------------------------------------------------------------ C2
\* C2: the ids of the hands in the finalized-hand list are strictly
\* increasing in list order.
C2_HandIdsStrictlyIncreasing ==
    \A i, j \in 1..Len(p.result.Hands) :
        i < j => p.result.Hands[i].ID < p.result.Hands[j].ID

\* Two kept hands after world-leave (which ended the first hand before the
\* New-hand-begin line arrived), New-hand-begin and end-of-stream.
C2_Witness ==
    /\ eof
    /\ Len(p.result.Hands) >= 2
    /\ \E i \in 1..(Len(p.result.Hands) - 1) :
          p.result.Hands[i].EndTime < p.result.Hands[i + 1].StartTime

\* ------------------------------------ specification: pre-flop statistics
\* A hand is in progress; in one initial state a first hand has made seat 1
\* the local seat, in the other the local seat is unknown.
InitPreflop ==
    /\ \E prefix \in { <<Line("NewGame", 1, 0, 0, NoCards, "")>>,
                        LocalSeatPrefix \o <<Line("NewGame", 4, 0, 0, NoCards, "")>> } :
          Started(prefix)
    /\ fin = <<>>
    /\ budget = MaxPreflopLines
    /\ eof = FALSE
    /\ InitOthers

NextPreflop ==
    \/ PostSB
    \/ PostBB
    \/ PlayerEndTurn
    \/ PlayerFolded
    \/ NewGame

SpecPreflop == InitPreflop /\ [][NextPreflop]_vars

\* Every finalized hand: the kept ones and the discarded ones.
FinalizedHands == {fin[i] : i \in 1..Len(fin)} \cup {p.result.Hands[i] : i \in 1..Len(p.result.Hands)}

\* ------------------------------------------------------------------ C6
\* C6: in every finalized hand, a player with fold-to-3-bet set has PFR set.
C6_FoldTo3BetImpliesPFR ==
    \A h \in FinalizedHands : \A s \in DOMAIN h.Players :
        h.Players[s].FoldTo3Bet => h.Players[s].PFR

\* ------------------------------------------------------------------ C7
\* C7: in every finalized hand, PFR implies VPIP and three-bet implies VPIP
\* for every player.
C7_AggressionImpliesVPIP ==
    \A h \in FinalizedHands : \A s \in DOMAIN h.Players :
        /\ h.Players[s].PFR => h.Players[s].VPIP
        /\ h.Players[s].ThreeBet => h.Players[s].VPIP

\* A kept hand with an opener (PFR) and a different seat that 3-bet.
C7_Witness ==
    \E i \in 1..Len(p.result.Hands) :
        LET h == p.result.Hands[i]
        IN \E s, t \in DOMAIN h.Players :
              s # t /\ h.Players[s].PFR /\ h.Players[t].ThreeBet

\* ----------------------------------------- specification: pots and boards
\* A hand is in progress in which seat 1, the local seat, has an entry.
InitPot ==
    /\ Started(LocalSeatPrefix)
    /\ fin = <<>>
    /\ budget = MaxPotLines
    /\ eof = FALSE
    /\ InitOthers

NextPot ==
    \/ CommunityCard
    \/ PotWinner
    \/ PotManager
    \/ NewGame

SpecPot == InitPot /\ [][NextPot]_vars

\* ------------------------------------------------------------------ C8
\* C8: a finalized hand with win_type = showdown has 3, 4 or 5 community
\* cards.
C8_ShowdownHasBoard ==
    \A h \in FinalizedHands :
        h.WinType = "showdown" => Len(h.CommunityCards) \in {3, 4, 5}

\* ------------------------------------------------------------------ C9
RECURSIVE SumPotWon(_, _)
SumPotWon(h, S) ==
    IF S = {} THEN 0
    ELSE LET s == CHOOSE x \in S : TRUE
         IN h.Players[s].PotWon + SumPotWon(h, S \ {s})

\* C9: in every finalized hand total_pot is the sum of pot_won over all the
\* players of the hand.
C9_TotalPotIsSumOfPotWon ==
    \A h \in FinalizedHands : h.TotalPot = SumPotWon(h, DOMAIN h.Players)

\* A kept hand with a split pot: two winning seats, one of them named by
\* more than one winner line (it won more than one line can carry).
C9_Witness ==
    \E i \in 1..Len(p.result.Hands) :
        LET h == p.result.Hands[i]
        IN \E s, t \in DOMAIN h.Players :
              /\ s # t
              /\ h.Players[s].Won /\ h.Players[t].Won
              /\ h.Players[s].PotWon > MaxAmount
              /\ h.Players[t].PotWon > 0

\* ------------------------------------------------------------------ C10
\* C10: in every finalized hand a player with won = true has pot_won > 0.
C10_WonImpliesPotWonPositive ==
    \A h \in FinalizedHands : \A s \in DOMAIN h.Players :
        h.Players[s].Won => h.Players[s].PotWon > 0

\* ------------------------------------- specification: incremental import
\* The line bodies a batch is made of; Stamp gives the lines of a batch
\* consecutive timestamps.
ImportBodies ==
    { Line("NewGame", 0, 0, 0, NoCards, ""),
      Line("SB", 0, 1, 1, NoCards, ""),
      Line("DrawLocal", 0, 0, 0, <<TokAh, TokKd>>, ""),
      Line("EndTurn", 0, 2, 2, NoCards, ""),
      Line("PotManager", 0, 1, 1, NoCards, ""),
      Line("Joining", 0, 0, 0, NoCards, VRPokerWorldID),
      Line("OnLeftRoom", 0, 0, 0, NoCards, "") }

Stamp(ls, t0) == [i \in 1..Len(ls) |-> [ls[i] EXCEPT !.ts = t0 + i]]

BatchesOf(n) == UNION {[1..k -> ImportBodies] : k \in 1..n}

RECURSIVE Flatten(_)
Flatten(bs) == IF bs = <<>> THEN <<>> ELSE Head(bs) \o Flatten(Tail(bs))

\* fed is the sequence of the batches imported so far.
InitImport ==
    /\ svc = NewService
    /\ fed = <<>>
    /\ Started(<<>>) /\ fin = <<>> /\ budget = 0 /\ eof = FALSE /\ app = NewApp
    /\ held = NoHeld /\ clf = NoCallFrame

ImportLines ==
    /\ Len(Flatten(fed)) < MaxImportLines
    /\ \E b \in BatchesOf(MaxBatch) :
          /\ Len(Flatten(fed)) + Len(b) <= MaxImportLines
          /\ LET lines == Stamp(b, svc.parser.lastTimestamp)
             IN /\ svc' = importLines(svc, lines)
                /\ fed' = Append(fed, lines)
    /\ UNCHANGED <<p, fin, budget, eof, app, log, objs, held, clf>>

NextImport == ImportLines

SpecImport == InitImport /\ [][NextImport]_vars

\* ------------------------------------------------------------------ C3
\* C3: importing the stream in several batches leaves the service with the
\* same finalized-hand list and local seat as importing the whole stream in
\* one batch.
C3_IncrementalEquivalence ==
    LET one == importLines(NewService, Flatten(fed))
    IN /\ GetHands(svc.parser) = GetHands(one.parser)
       /\ GetLocalSeat(svc.parser) = GetLocalSeat(one.parser)
       /\ svc.localSeat = one.localSeat

\* The stream was split inside a hand, and that hand was finalized and kept
\* after the split.
C3_Witness ==
    /\ Len(fed) >= 2
    /\ LET first == importLines(NewService, fed[1]).parser
       IN /\ first.currentHand # <<>>
          /\ \E i \in 1..Len(GetHands(svc.parser)) :
                GetHands(svc.parser)[i].ID = Cur(first).ID

\* -------------------------------------- specification: the GUI controller
OnlyApp == UNCHANGED <<p, fin, budget, eof, svc, fed, log, objs, held, clf>>

\* changeLogFile, first critical section: stop the watcher, replace the
\* parser, set the path.
ChangeLogFileReset ==
    /\ \E t \in Loaders :
          /\ app.pc[t] = "start"
          /\ app.mu = NoThread
          /\ app' = [app EXCEPT !.watcher = FALSE,
                                !.parser = @ + 1,
                                !.pc[t] = "open"]
    /\ OnlyApp

\* parseFullFile: Lock; p := a.parser; Unlock.
ParseFullFileLoad ==
    /\ \E t \in Loaders :
          /\ app.pc[t] = "open"
          /\ app.mu = NoThread
          /\ app' = [app EXCEPT !.ref[t] = app.parser,
                                !.left[t] = MaxFileLines,
                                !.pc[t] = "scan"]
    /\ OnlyApp

\* parseFullFile: the scan loop calls p.ParseLine, the mutex not held.
ParseFullFileCall ==
    /\ \E t \in Loaders :
          /\ app.pc[t] = "scan"
          /\ app.left[t] > 0
          /\ app' = [app EXCEPT !.inCall[t] = "ParseLine", !.pc[t] = "parsing"]
    /\ OnlyApp

ParseFullFileReturn ==
    /\ \E t \in Loaders :
          /\ app.pc[t] = "parsing"
          /\ app' = [app EXCEPT !.inCall[t] = NoCall,
                                !.left[t] = @ - 1,
                                !.pc[t] = "scan"]
    /\ OnlyApp

ParseFullFileDone ==
    /\ \E t \in Loaders :
          /\ app.pc[t] = "scan"
          /\ app.left[t] = 0
          /\ app' = [app EXCEPT !.pc[t] = "update"]
    /\ OnlyApp

\* doUpdateStats: Lock; p := a.parser; GetLocalSeat; GetHands; Unlock.
UpdateStatsLock ==
    /\ \E t \in Loaders \cup {"tail"} :
          /\ app.pc[t] = "update"
          /\ app.mu = NoThread
          /\ app' = [app EXCEPT !.mu = t,
                                !.ref[t] = app.parser,
                                !.inCall[t] = "GetHands",
                                !.pc[t] = "reading"]
    /\ OnlyApp

UpdateStatsUnlock ==
    /\ \E t \in Loaders \cup {"tail"} :
          /\ app.pc[t] = "reading"
          /\ app' = [app EXCEPT !.mu = NoThread,
                                !.inCall[t] = NoCall,
                                !.pc[t] = IF t = "tail" THEN "idle" ELSE "watch"]
    /\ OnlyApp

\* changeLogFile: the new watcher is started and stored.
StartWatcher ==
    /\ \E t \in Loaders :
          /\ app.pc[t] = "watch"
          /\ app.mu = NoThread
          /\ app' = [app EXCEPT !.watcher = TRUE, !.pc[t] = "done"]
    /\ OnlyApp

\* OnNewData: Lock; p := a.parser; ParseLine for each new line; Unlock.
TailLock ==
    /\ app.pc["tail"] = "idle"
    /\ app.watcher
    /\ app.mu = NoThread
    /\ app' = [app EXCEPT !.mu = "tail",
                          !.ref["tail"] = app.parser,
                          !.inCall["tail"] = "ParseLine",
                          !.pc["tail"] = "parsing"]
    /\ OnlyApp

TailUnlock ==
    /\ app.pc["tail"] = "parsing"
    /\ app' = [app EXCEPT !.mu = NoThread,
                          !.inCall["tail"] = NoCall,
                          !.pc["tail"] = "update"]
    /\ OnlyApp

\* doRefreshCurrentTab: Lock; p := a.parser; GetLocalSeat; GetHands; Unlock.
RefreshLock ==
    /\ app.pc["ui"] = "idle"
    /\ app.mu = NoThread
    /\ app' = [app EXCEPT !.mu = "ui",
                          !.ref["ui"] = app.parser,
                          !.inCall["ui"] = "GetHands",
                          !.pc["ui"] = "reading"]
    /\ OnlyApp

RefreshUnlock ==
    /\ app.pc["ui"] = "reading"
    /\ app' = [app EXCEPT !.mu = NoThread,
                          !.inCall["ui"] = NoCall,
                          !.pc["ui"] = "idle"]
    /\ OnlyApp

InitApp ==
    /\ app = NewApp
    /\ Started(<<>>) /\ fin = <<>> /\ budget = 0 /\ eof = FALSE
    /\ svc = NewService /\ fed = <<>> /\ held = NoHeld /\ clf = NoCallFrame

NextApp ==
    \/ ChangeLogFileReset
    \/ ParseFullFileLoad
    \/ ParseFullFileCall
    \/ ParseFullFileReturn
    \/ ParseFullFileDone
    \/ UpdateStatsLock
    \/ UpdateStatsUnlock
    \/ StartWatcher
    \/ TailLock
    \/ TailUnlock
    \/ RefreshLock
    \/ RefreshUnlock

SpecApp == InitApp /\ [][NextApp]_vars

\* ------------------------------------------------------------------ C5
\* C5: no goroutine is inside ParseLine on a parser while another goroutine
\* is inside a call (ParseLine, GetHands, GetLocalSeat) on the same parser.
C5_NoConcurrentParserAccess ==
    \A t, u \in Threads :
        (t # u /\ app.inCall[t] = "ParseLine" /\ app.inCall[u] # NoCall)
            => app.ref[t] # app.ref[u]

\* --------------------------------------- specification: seat bookkeeping
\* A hand is in progress in which no seat has been seen yet; the local seat
\* is unknown, or known from a first hand.
InitSeats ==
    /\ \E prefix \in { <<Line("NewGame", 1, 0, 0, NoCards, "")>>,
                        LocalSeatPrefix \o <<Line("NewGame", 4, 0, 0, NoCards, "")>> } :
          Started(prefix)
    /\ fin = <<>>
    /\ budget = MaxSeatLines
    /\ eof = FALSE
    /\ InitOthers

NextSeats ==
    \/ DrawLocalHoleCards
    \/ ShowHoleCards
    \/ PotWinner
    \/ PlayerFolded
    \/ NewGame

SpecSeats == InitSeats /\ [][NextSeats]_vars

\* ------------------------------------------------------------------ C11
\* Every seat of active_seats has a player entry, and no seat is listed twice.
SeatsConsistent(h) ==
    /\ \A i \in 1..Len(h.ActiveSeats) : h.ActiveSeats[i] \in DOMAIN h.Players
    /\ \A i, j \in 1..Len(h.ActiveSeats) : i # j => h.ActiveSeats[i] # h.ActiveSeats[j]

\* The seat was first seen, and only seen, as a declared winner.
OnlyWinner(h, s) ==
    /\ s \in DOMAIN h.Players
    /\ h.Players[s].Won /\ h.Players[s].Actions = <<>>
    /\ ~h.Players[s].ShowedDown /\ h.Players[s].HoleCards = <<>>

\* The seat was only seen as the target of the local-card assignment.
OnlyLocalTarget(h, s) ==
    /\ s \in DOMAIN h.Players
    /\ h.Players[s].HoleCards # <<>> /\ h.Players[s].Actions = <<>>
    /\ ~h.Players[s].ShowedDown /\ ~h.Players[s].Won

\* The seat was only seen revealing its hole cards.
OnlyRevealer(h, s) ==
    /\ s \in DOMAIN h.Players
    /\ h.Players[s].ShowedDown /\ h.Players[s].Actions = <<>> /\ ~h.Players[s].Won

\* C11: in the hand in progress and in every finalized hand, each seat of
\* active_seats has an entry in players and active_seats holds no seat twice.
C11_ActiveSeatsHaveEntries ==
    /\ p.currentHand # <<>> => SeatsConsistent(Cur(p))
    /\ \A h \in FinalizedHands : SeatsConsistent(h)

\* A kept hand with a seat seen only as a winner and a seat seen only as the
\* target of the local cards, and a hand in progress with a seat seen only as
\* a revealer; each of these seats is in active_seats.
C11_Witness ==
    /\ \E i \in 1..Len(p.result.Hands) :
          LET h == p.result.Hands[i]
          IN \E s, t \in DOMAIN h.Players :
                /\ OnlyWinner(h, s) /\ OnlyLocalTarget(h, t)
                /\ SeqContains(h.ActiveSeats, s) /\ SeqContains(h.ActiveSeats, t)
    /\ p.currentHand # <<>>
    /\ \E s \in DOMAIN Cur(p).Players :
          OnlyRevealer(Cur(p), s) /\ SeqContains(Cur(p).ActiveSeats, s)

\* ------------------------------------------------------------------ C12
\* The lines ingested while h was the hand in progress: after the line that
\* started it, up to the line that finalized it.
LinesOf(h) == {i \in 1..Len(log) : log[i].ts > h.StartTime /\ log[i].ts <= h.EndTime}

\* C12: a finalized hand is complete if and only if a winner line (showdown
\* or fold winner) or a community-card line was ingested during the hand.
C12_CompleteIffWinnerOrBoard ==
    \A h \in FinalizedHands :
        h.IsComplete <=>
            \E i \in LinesOf(h) : log[i].kind \in {"PotWinner", "PotManager", "Community"}

\* Three finalized hands: complete by a community card alone, complete by a
\* winner alone, and not complete.
C12_Witness ==
    \E a, b, c \in FinalizedHands :
        /\ a.IsComplete /\ a.CommunityCards # <<>> /\ a.TotalPot = 0 /\ a.WinnerSeat = -1
        /\ b.IsComplete /\ b.CommunityCards = <<>> /\ b.WinnerSeat # -1
        /\ ~c.IsComplete

\* ------------------------------------------- specification: dropped lines
\* No hand has begun, or a hand is in progress with the local seat known.
InitDropped ==
    /\ \E prefix \in {<<>>, LocalSeatPrefix} : Started(prefix)
    /\ fin = <<>>
    /\ budget = MaxDroppedLines
    /\ eof = FALSE
    /\ InitOthers

NextDropped ==
    \/ UnmatchedLine
    \/ LineWithoutTimestamp
    \/ MalformedCardLine
    \/ NewGame
    \/ PostSB
    \/ PotWinner
    \/ CommunityCard
    \/ DrawLocalHoleCards
    \/ ShowHoleCards
    \/ WorldJoining
    \/ WorldLeaving

SpecDropped == InitDropped /\ [][NextDropped]_vars

\* The line ParseLine was last called with.
LastLine(lg) == lg[Len(lg)]

\* ------------------------------------------------------------------ C13
\* The body matches no pattern, or it is a poker event other than
\* New-hand-begin while no hand is in progress.
IsIgnored(q, l) ==
    \/ l.kind = "Other"
    \/ /\ q.currentHand = <<>>
       /\ l.kind \notin {"NewGame", "Joining", "OnLeftRoom", "NoTimestamp"}

\* C13: a line without a timestamp changes no parser state; an unmatched
\* line, and a poker event other than New-hand-begin while no hand is in
\* progress, change nothing but last_timestamp; ParseLine reports no error.
C13_IgnoredLinesHaveNoEffect ==
    [][log' # log =>
         LET l == LastLine(log')
         IN /\ ~ParseLineErr(p, l)
            /\ l.kind = "NoTimestamp" => p' = p
            /\ IsIgnored(p, l) => p' = [p EXCEPT !.lastTimestamp = l.ts]]_vars

\* A hand is in progress that saw an unmatched line and a line without a
\* timestamp, after a poker event arrived while no hand was in progress.
C13_Witness ==
    /\ p.currentHand # <<>>
    /\ \E i, j, k \in 1..Len(log) :
          /\ i < j /\ i < k
          /\ ParseLines(NewParser, SubSeq(log, 1, i - 1)).currentHand = <<>>
          /\ log[i].kind \in {"SB", "PotWinner", "Community", "DrawLocal", "ShowHole"}
          /\ ParseLines(NewParser, SubSeq(log, 1, j - 1)).currentHand # <<>>
          /\ log[j].kind = "Other"
          /\ ParseLines(NewParser, SubSeq(log, 1, k - 1)).currentHand # <<>>
          /\ log[k].kind = "NoTimestamp"

\* ------------------------------------------------------------------ C14
\* A card line with a token that parseCard does not decode to a card.
HasInvalidToken(l) ==
    /\ l.kind \in {"Community", "DrawLocal", "ShowHole"}
    /\ \E i \in 1..Len(l.cards) : parseCard(l.cards[i]) = EmptyCard

\* What a card line can write: the board, the players' hole cards and
\* showed_down flags, the street, the pending local cards, the local seat.
CardState(q) ==
    [ community |-> Cur(q).CommunityCards,
      players   |-> [s \in DOMAIN Cur(q).Players |->
                       <<Cur(q).Players[s].HoleCards, Cur(q).Players[s].ShowedDown>>],
      street    |-> q.currentStreet,
      pending   |-> q.pendingLocalCards,
      localSeat |-> q.result.LocalPlayerSeat,
      handSeat  |-> Cur(q).LocalPlayerSeat ]

\* C14: while a hand is in progress, a Community-card, Local-hole-candidate
\* or Reveal line with an invalid card token leaves the community cards, the
\* hole cards, the showed_down flags, the street, the pending local cards and
\* the local seat unchanged.
C14_InvalidCardLineDropped ==
    [][(log' # log /\ p.currentHand # <<>> /\ HasInvalidToken(LastLine(log')))
          => CardState(p') = CardState(p)]_vars

\* ------------------------------------------------------------------ C15
\* C15: a hand in the result list is not written again: the object the list
\* element points to is the hand as it was appended, and no step changes it
\* or the list element.
C15_FinalizedHandsImmutable ==
    [][\A i \in 1..Len(p.result.Hands) :
          LET a == AddrOf(p.result.Hands[i])
          IN /\ objs[a] = p.result.Hands[i]
             /\ objs'[a] = objs[a]
             /\ i <= Len(p'.result.Hands)
             /\ p'.result.Hands[i] = p.result.Hands[i]]_vars

\* After a hand was finalized and kept, a later hand saw a blind post, a
\* draw or a reveal and was itself finalized.
C15_Witness ==
    /\ Len(p.result.Hands) >= 1
    /\ \E h \in FinalizedHands :
          /\ h.StartTime > p.result.Hands[1].EndTime
          /\ DOMAIN h.Players # {}
    /\ \E j \in 1..Len(log) :
          /\ log[j].ts > p.result.Hands[1].EndTime
          /\ log[j].kind \in {"SB", "DrawLocal", "ShowHole"}

\* --------------------------------------- specification: snapshot accessors
\* The caller keeps what the accessors return: held.seat is the int returned
\* by GetLocalSeat, held.hands the slice of pointers returned by GetHands,
\* held.cur the pointer returned by GetCurrentHand (<<>> for nil).  handsSeen
\* and curSeen are the hands as they were when the accessor returned.
CanCall == held.calls < MaxCalls /\ ~eof

OnlyHeld == UNCHANGED <<p, fin, budget, eof, svc, fed, app, log, objs, clf>>

CallGetLocalSeat ==
    /\ CanCall
    /\ held' = [held EXCEPT !.seat = GetLocalSeat(p), !.calls = @ + 1]
    /\ OnlyHeld

\* GetHands: a new slice, the pointers copied into it.
CallGetHands ==
    /\ CanCall
    /\ held' = [held EXCEPT
                  !.hands = [i \in 1..Len(GetHands(p)) |-> AddrOf(GetHands(p)[i])],
                  !.handsSeen = [i \in 1..Len(GetHands(p)) |-> objs[AddrOf(GetHands(p)[i])]],
                  !.calls = @ + 1]
    /\ OnlyHeld

\* GetCurrentHand: the parser's own pointer.
CallGetCurrentHand ==
    /\ CanCall
    /\ held' = [held EXCEPT
                  !.cur = [i \in 1..Len(GetCurrentHand(p)) |-> AddrOf(GetCurrentHand(p)[i])],
                  !.curSeen = [i \in 1..Len(GetCurrentHand(p)) |->
                                 objs[AddrOf(GetCurrentHand(p)[i])]],
                  !.calls = @ + 1]
    /\ OnlyHeld

InitSnapshot ==
    /\ \E prefix \in {<<>>, LocalSeatPrefix} : Started(prefix)
    /\ fin = <<>>
    /\ budget = MaxSnapshotLines
    /\ eof = FALSE
    /\ InitOthers

NextSnapshot ==
    \/ CallGetLocalSeat
    \/ CallGetHands
    \/ CallGetCurrentHand
    \/ NewGame
    \/ PostSB
    \/ DrawLocalHoleCards

SpecSnapshot == InitSnapshot /\ [][NextSnapshot]_vars

\* ------------------------------------------------------------------ C16
\* What the caller reads through the values it holds.
Observed(pointers) == [i \in 1..Len(pointers) |-> objs[pointers[i]]]

\* C16: what the caller observes through the values the accessors returned
\* is what it was when they returned, whatever was ingested since: the
\* finalized hands of GetHands and the hand of GetCurrentHand (the seat of
\* GetLocalSeat is an int held by value).
C16_SnapshotsAreCopies ==
    /\ Observed(held.hands) = held.handsSeen
    /\ Observed(held.cur) = held.curSeen

\* ------------------------------------------------------------------ C17
\* The parser after the first n lines of the history.
ParserAt(n) == ParseLines(NewParser, SubSeq(log, 1, n))

\* In one hand: line i is a blind post, with no blind post after it before
\* line j; line j is a Draw Local Hole Cards line that arrives while the
\* local seat is unknown; the last line is a reveal of the same cards by
\* another seat.
RevealAfterTentativeDraw(i, j) ==
    LET k == Len(log)
    IN /\ i < j /\ j < k
       /\ log[i].kind \in {"SB", "BB"}
       /\ log[j].kind = "DrawLocal"
       /\ log[k].kind = "ShowHole"
       /\ log[k].seat # log[i].seat
       /\ log[k].cards = log[j].cards
       /\ \A n \in (i + 1)..(j - 1) : log[n].kind \notin {"SB", "BB"}
       /\ \A n \in i..k : log[n].kind \notin {"NewGame", "OnLeftRoom"}
       /\ \A n \in (j + 1)..(k - 1) : log[n].kind \notin {"DrawLocal", "ShowHole"}
       /\ ParserAt(i - 1).currentHand # <<>>
       /\ GetLocalSeat(ParserAt(j - 1)) < 0

\* C17: when the cards of a draw were tentatively attached to the last blind
\* seat A and seat B then reveals exactly those cards, the local seat is B,
\* B holds the cards and A's hole cards are empty.
C17_RevealCorrectsLocalSeat ==
    \A i, j \in 1..Len(log) :
        RevealAfterTentativeDraw(i, j) =>
            LET a == log[i].seat
                b == LastLine(log).seat
            IN /\ GetLocalSeat(p) = b
               /\ Cur(p).LocalPlayerSeat = b
               /\ Cur(p).Players[b].HoleCards = parseCards(LastLine(log).cards)
               /\ Cur(p).Players[a].HoleCards = <<>>

\* ------------------------------------------------------------------ C20
\* The indices of the pre-flop actions of seat s with an action in kinds.
PreflopActs(h, s, kinds) ==
    {i \in 1..Len(h.Players[s].Actions) :
        /\ h.Players[s].Actions[i].Street = StreetPreFlop
        /\ h.Players[s].Actions[i].Action \in kinds}

Aggressive == {ActionBet, ActionRaise}
Voluntary == {ActionCall} \cup Aggressive

\* Both blinds were posted, by different seats, before time t.
BlindsPostedBefore(h, t) ==
    /\ h.SBSeat >= 0 /\ h.BBSeat >= 0 /\ h.SBSeat # h.BBSeat
    /\ \E i \in PreflopActs(h, h.SBSeat, {ActionBlindSB}) :
          h.Players[h.SBSeat].Actions[i].Timestamp < t
    /\ \E i \in PreflopActs(h, h.BBSeat, {ActionBlindBB}) :
          h.Players[h.BBSeat].Actions[i].Timestamp < t

\* Some seat in among bet or raised before time t.
RaisedBefore(h, among, t) ==
    \E u \in among : \E i \in PreflopActs(h, u, Aggressive) :
        h.Players[u].Actions[i].Timestamp < t

\* The only voluntary pre-flop action of the SB seat is a call of at most
\* the BB amount, made after both blinds and before any bet or raise.
SBOnlyCompletes(h) ==
    LET s == h.SBSeat
    IN /\ BlindsPostedBefore(h, h.EndTime + 1)
       /\ \E i \in PreflopActs(h, s, {ActionCall}) :
             LET c == h.Players[s].Actions[i]
             IN /\ PreflopActs(h, s, Voluntary) = {i}
                /\ c.Amount <= bbAmount(h)
                /\ BlindsPostedBefore(h, c.Timestamp)
                /\ ~RaisedBefore(h, DOMAIN h.Players, c.Timestamp)

\* After both blinds another seat raised, and the SB seat then called that
\* raise (an End Turn of the raise's amount).
SBCallsRaise(h) ==
    LET s == h.SBSeat
    IN /\ BlindsPostedBefore(h, h.EndTime + 1)
       /\ \E u \in DOMAIN h.Players \ {s} : \E j \in PreflopActs(h, u, Aggressive) :
             LET r == h.Players[u].Actions[j]
             IN /\ BlindsPostedBefore(h, r.Timestamp)
                /\ \E i \in PreflopActs(h, s, {ActionCall}) :
                      /\ h.Players[s].Actions[i].Timestamp > r.Timestamp
                      /\ h.Players[s].Actions[i].Amount = r.Amount

\* C20: in a finalized hand with both blinds posted, the SB seat that only
\* completes to the BB has VPIP = false, and the SB seat that calls another
\* seat's raise has VPIP = true.
C20_SmallBlindVPIP ==
    \A h \in FinalizedHands :
        /\ SBOnlyCompletes(h) => ~h.Players[h.SBSeat].VPIP
        /\ SBCallsRaise(h) => h.Players[h.SBSeat].VPIP

\* A kept hand in which the BB seat raised and the SB seat called the raise.
C20_Witness ==
    \E i \in 1..Len(p.result.Hands) :
        /\ SBCallsRaise(p.result.Hands[i])
        /\ p.result.Hands[i].Players[p.result.Hands[i].SBSeat].VPIP

\* ------------------------------------------------------------ scenarios
\* Scripted inputs: a whole log fed line by line through ParseLine, then the
\* end of the stream as ParseReader handles it.
ScenarioSeats == 1..MaxScenarioSeat

\* A line of a script; ParseLine gets it with the next timestamp.
Scripted(kind, seat, amount, cards) == Line(kind, 0, seat, amount, cards, "")

Enter == Line("Joining", 0, 0, 0, NoCards, VRPokerWorldID)

\* Heads-up hand folded pre-flop: a posts SB 10, b posts BB 20, the local
\* cards are drawn, a makes it 60, b folds, a wins 30.
HeadsUpFold(a, b) ==
    << Enter,
       Scripted("NewGame", 0, 0, NoCards),
       Scripted("SB", a, 10, NoCards),
       Scripted("BB", b, 20, NoCards),
       Scripted("DrawLocal", 0, 0, <<TokAh, TokKd>>),
       Scripted("EndTurn", a, 60, NoCards),
       Scripted("Folded", b, 0, NoCards),
       Scripted("PotManager", a, 30, NoCards) >>

\* sb posts SB 10, bb posts BB 20, x makes it 60, y makes it 180, x folds.
RaiseReraiseFold(sb, bb, x, y) ==
    << Enter,
       Scripted("NewGame", 0, 0, NoCards),
       Scripted("SB", sb, 10, NoCards),
       Scripted("BB", bb, 20, NoCards),
       Scripted("EndTurn", x, 60, NoCards),
       Scripted("EndTurn", y, 180, NoCards),
       Scripted("Folded", x, 0, NoCards) >>

\* No blind lines: x makes it 40, y folds, z folds.
UnpostedBlinds(x, y, z) ==
    << Enter,
       Scripted("NewGame", 0, 0, NoCards),
       Scripted("EndTurn", x, 40, NoCards),
       Scripted("Folded", y, 0, NoCards),
       Scripted("Folded", z, 0, NoCards) >>

\* Only one blind is posted, by b; x makes it 40 and y folds.
OneBlindPosted(kind, b, x, y) ==
    << Enter,
       Scripted("NewGame", 0, 0, NoCards),
       Scripted(kind, b, 10, NoCards),
       Scripted("EndTurn", x, 40, NoCards),
       Scripted("Folded", y, 0, NoCards) >>

\* A table of the seats 1..n: seat k posts SB 10, the next seat posts BB 20,
\* and every other seat calls 20, in ascending seat order.
FullTable(n, k) ==
    << Enter,
       Scripted("NewGame", 0, 0, NoCards),
       Scripted("SB", k, 10, NoCards),
       Scripted("BB", (k % n) + 1, 20, NoCards) >>
    \o [i \in 1..(n - 2) |->
          Scripted("EndTurn",
                   CHOOSE s \in 1..n :
                      /\ s \notin {k, (k % n) + 1}
                      /\ Cardinality({t \in 1..s : t \notin {k, (k % n) + 1}}) = i,
                   20, NoCards)]

Scenarios ==
    {HeadsUpFold(a, b) : a \in ScenarioSeats, b \in ScenarioSeats}
    \cup UNION {{FullTable(n, k) : k \in 1..n} : n \in 2..MaxTable}
    \cup {OneBlindPosted(c[1], c[2], c[3], c[4]) :
             c \in {"SB", "BB"} \X ScenarioSeats \X ScenarioSeats \X ScenarioSeats}
    \cup {UnpostedBlinds(c[1], c[2], c[3]) :
             c \in ScenarioSeats \X ScenarioSeats \X ScenarioSeats}
    \cup {RaiseReraiseFold(c[1], c[2], c[3], c[4]) :
             c \in ScenarioSeats \X ScenarioSeats \X ScenarioSeats \X ScenarioSeats}

\* The lines fed so far, without their timestamps.
Bodies(lg) == [i \in 1..Len(lg) |-> [lg[i] EXCEPT !.ts = 0]]

\* ParseReader reads the next line of the script being followed.
ScenarioLine ==
    /\ CanIngest
    /\ \E sc \in Scenarios :
          /\ Len(log) < Len(sc)
          /\ Bodies(log) = SubSeq(sc, 1, Len(log))
          /\ Ingest([sc[Len(log) + 1] EXCEPT !.ts = NextTs(p)])

InitScenario ==
    /\ Started(<<>>)
    /\ fin = <<>>
    /\ budget = MaxScenarioLines
    /\ eof = FALSE
    /\ InitOthers

NextScenario ==
    \/ ScenarioLine
    \/ EndOfStream

SpecScenario == InitScenario /\ [][NextScenario]_vars

\* The whole script sc was read and the stream ended.
Played(sc) == eof /\ Bodies(log) = sc

\* C18: after the heads-up fold script with SB seat a and BB seat b the
\* result is exactly one hand with local seat a, SB a, BB b; seat a has
\* VPIP, PFR, position SB, won and pot_won 30; seat b folded without
\* fold-to-3-bet; win type fold; complete.
C18_HeadsUpFoldScenario ==
    \A a, b \in ScenarioSeats :
        (a # b /\ Played(HeadsUpFold(a, b))) =>
            /\ Len(GetHands(p)) = 1
            /\ GetLocalSeat(p) = a
            /\ LET h == GetHands(p)[1]
               IN /\ h.LocalPlayerSeat = a
                  /\ h.SBSeat = a /\ h.BBSeat = b
                  /\ DOMAIN h.Players = {a, b}
                  /\ h.Players[a].VPIP /\ h.Players[a].PFR
                  /\ h.Players[a].Position = PosSB
                  /\ h.Players[a].Won /\ h.Players[a].PotWon = 30
                  /\ h.Players[b].FoldedPF /\ ~h.Players[b].FoldTo3Bet
                  /\ h.WinType = "fold"
                  /\ h.IsComplete

\* C19: after blinds, a raise by x, a re-raise by y and a fold by x, the
\* finalized hand has x with PFR and fold-to-3-bet and y with three-bet and
\* VPIP.
C19_ThreeBetScenario ==
    \A sb, bb, x, y \in ScenarioSeats :
        (sb # bb /\ x # y /\ Played(RaiseReraiseFold(sb, bb, x, y))) =>
            /\ Len(fin) = 1
            /\ LET h == fin[1]
               IN /\ h.Players[x].PFR /\ h.Players[x].FoldTo3Bet
                  /\ h.Players[y].ThreeBet /\ h.Players[y].VPIP

\* ------------------------------------------------------------------ C21
\* The seat before s in the circle of the seats of S in ascending order.
SeatBefore(S, s) ==
    IF \E t \in S : t < s
    THEN CHOOSE t \in S : t < s /\ \A u \in S : u < s => u <= t
    ELSE CHOOSE t \in S : \A u \in S : u <= t

TurnPrefix ==
    LocalSeatPrefix \o [i \in 1..4 |-> Line("Community", 3 + i, 0, 0, <<Tok10s>>, "")]

InitShowdown ==
    /\ Started(TurnPrefix)
    /\ fin = <<>>
    /\ budget = MaxShowdownLines
    /\ eof = FALSE
    /\ InitOthers

NextShowdown ==
    \/ CommunityCard
    \/ ShowHoleCards
    \/ PotWinner
    \/ PotManager
    \/ FoldToOne
    \/ NewGame

SpecShowdown == InitShowdown /\ [][NextShowdown]_vars

\* ------------------------------------------------------------------ C22
\* During h seat w revealed its cards, and the only winner line of the hand
\* is a showdown-winner line naming w with amount a.
RevealedAndWon(h, w, a) ==
    /\ \E i \in LinesOf(h) : log[i].kind = "ShowHole" /\ log[i].seat = w
    /\ \E i \in LinesOf(h) :
          /\ log[i].kind = "PotWinner" /\ log[i].seat = w /\ log[i].amount = a
          /\ \A j \in LinesOf(h) \ {i} : log[j].kind \notin {"PotWinner", "PotManager"}

\* C22: a finalized hand with 5 community cards in which seat w revealed its
\* hole cards and a single showdown-winner line names w with amount a has
\* win_type = showdown, w showed down and won, pot_won of w = a and
\* total_pot = a.
C22_ShowdownWin ==
    \A h \in FinalizedHands : \A w \in Seats, a \in Amounts :
        (Len(h.CommunityCards) = 5 /\ RevealedAndWon(h, w, a)) =>
            /\ h.WinType = "showdown"
            /\ w \in DOMAIN h.Players
            /\ h.Players[w].ShowedDown
            /\ h.Players[w].Won
            /\ h.Players[w].PotWon = a
            /\ h.TotalPot = a

\* A kept hand with 5 community cards, a reveal and one showdown-winner line
\* of a positive amount for the revealing seat.
C22_Witness ==
    \E i \in 1..Len(p.result.Hands) : \E w \in Seats, a \in Amounts \ {0} :
        /\ Len(p.result.Hands[i].CommunityCards) = 5
        /\ RevealedAndWon(p.result.Hands[i], w, a)
        /\ p.result.Hands[i].TotalPot = a

\* ------------------------------------------------------------------ C23
\* C23: a world-leave line ingested while a hand is in progress finalizes
\* that hand and leaves the parser without a current hand, whether or not a
\* join of the poker world came before.
C23_LeaveFinalizesHand ==
    [][(log' # log /\ LastLine(log').kind = "OnLeftRoom" /\ p.currentHand # <<>>) =>
          (p'.currentHand = <<>> /\ Len(fin') = Len(fin) + 1)]_vars

\* ------------------------------------------------------------------ C24
\* C24: a join of a world other than the poker world ingested while the
\* parser is in the poker world puts it out of the poker world and finalizes
\* the hand in progress, if any.
C24_JoinOtherFinalizesHand ==
    [][(/\ log' # log
        /\ LastLine(log').kind = "Joining"
        /\ LastLine(log').world # VRPokerWorldID
        /\ p.inPokerWorld) =>
          (/\ ~p'.inPokerWorld
           /\ p.currentHand # <<>> =>
                 (p'.currentHand = <<>> /\ Len(fin') = Len(fin) + 1))]_vars

CardSet(cs) == {cs[i] : i \in 1..Len(cs)}

\* C26: with the local seat unknown and local hole cards pending, a reveal
\* by seat s of the same two cards, in either order, makes s the local seat.
C26_RevealMatchesUnordered ==
    [][(/\ log' # log
        /\ LastLine(log').kind = "ShowHole"
        /\ p.currentHand # <<>>
        /\ GetLocalSeat(p) < 0
        /\ Len(p.pendingLocalCards) = 2
        /\ Len(LastLine(log').cards) = 2
        /\ CardSet(parseCards(LastLine(log').cards)) = CardSet(p.pendingLocalCards)) =>
          GetLocalSeat(p') = LastLine(log').seat]_vars

\* ------------------------------------------------------------------ C27
\* C27: right after the k-th community card of a hand is recorded the
\* current street is flop for k in 1..3, turn for k = 4 and river for k = 5,
\* whatever came before the card.
C27_StreetFollowsBoard ==
    [][(/\ log' # log
        /\ LastLine(log').kind = "Community"
        /\ ~HasInvalidToken(LastLine(log'))
        /\ p.currentHand # <<>>) =>
          LET k == Len(Cur(p').CommunityCards)
          IN /\ k \in {1, 2, 3} => p'.currentStreet = StreetFlop
             /\ k = 4 => p'.currentStreet = StreetTurn
             /\ k = 5 => p'.currentStreet = StreetRiver]_vars

\* ------------------------------------------------------------------ C28
\* C28: while the same hand is in progress the current street never moves
\* backwards in the order preflop < flop < turn < river < showdown.
C28_StreetNeverBackwards ==
    [][(/\ p.currentHand # <<>>
        /\ p'.currentHand # <<>>
        /\ Cur(p').ID = Cur(p).ID) =>
          p'.currentStreet >= p.currentStreet]_vars

\* ------------------------------------------------------------------ C29
\* The kinds among the recorded actions of hand h.
KindsIn(h) ==
    UNION {{h.Players[s].Actions[i].Action : i \in 1..Len(h.Players[s].Actions)} :
              s \in DOMAIN h.Players}

\* C29: an End Turn line with amount a by a seat that has not folded records
\* one action for the seat: check if a = 0, else bet if street_bet_amount = 0,
\* else raise if a > street_bet_amount, else call; afterwards
\* street_bet_amount is the larger of its old value and a, and
\* street_bets[seat] = a.
C29_EndTurnClassification ==
    [][(/\ log' # log
        /\ LastLine(log').kind = "EndTurn"
        /\ p.currentHand # <<>>
        /\ LastLine(log').seat \notin p.foldedThisHand) =>
          LET s == LastLine(log').seat
              a == LastLine(log').amount
              before == IF s \in DOMAIN Cur(p).Players THEN Cur(p).Players[s].Actions ELSE <<>>
              after == Cur(p').Players[s].Actions
          IN /\ Len(after) = Len(before) + 1
             /\ SubSeq(after, 1, Len(before)) = before
             /\ after[Len(after)].Amount = a
             /\ after[Len(after)].Action =
                   (IF a = 0 THEN ActionCheck
                    ELSE IF p.streetBetAmount = 0 THEN ActionBet
                    ELSE IF a > p.streetBetAmount THEN ActionRaise
                    ELSE ActionCall)
             /\ p'.streetBetAmount = (IF a > p.streetBetAmount THEN a ELSE p.streetBetAmount)
             /\ s \in DOMAIN p'.streetBets /\ p'.streetBets[s] = a]_vars

\* A finalized hand in which a check, a bet, a raise and a call were recorded.
C29_Witness ==
    \E h \in FinalizedHands :
        {ActionCheck, ActionBet, ActionRaise, ActionCall} \subseteq KindsIn(h)

\* ------------------------------------------------------------------ C30
\* The largest value in street_bets, 0 when it is empty.
MaxStreetBet(q) ==
    IF DOMAIN q.streetBets = {} THEN 0
    ELSE CHOOSE m \in {q.streetBets[s] : s \in DOMAIN q.streetBets} :
            \A s \in DOMAIN q.streetBets : q.streetBets[s] <= m

\* C30: in every reachable state street_bet_amount is the largest amount any
\* single seat has in street_bets (0 when street_bets is empty).
C30_StreetBetIsMaxCommitted == p.streetBetAmount = MaxStreetBet(p)

\* ------------------------------------------------------------------ C31
\* No check, call, bet or raise of a seat comes after a fold of that seat in
\* the seat's action list.
NothingAfterFold(h) ==
    \A s \in DOMAIN h.Players : \A i, j \in 1..Len(h.Players[s].Actions) :
        (i < j /\ h.Players[s].Actions[i].Action = ActionFold) =>
            h.Players[s].Actions[j].Action \notin
                {ActionCheck, ActionCall, ActionBet, ActionRaise}

\* C31: an End Turn line of a seat that has folded in the hand in progress
\* changes nothing but last_timestamp (no action, street_bet_amount,
\* street_bets and the pre-flop action buffer as before), so no check, call,
\* bet or raise follows a fold in a seat's action list.
C31_EndTurnAfterFoldIgnored ==
    [][/\ (/\ log' # log
           /\ LastLine(log').kind = "EndTurn"
           /\ p.currentHand # <<>>
           /\ LastLine(log').seat \in p.foldedThisHand) =>
             p' = [p EXCEPT !.lastTimestamp = LastLine(log').ts]
       /\ p'.currentHand # <<>> => NothingAfterFold(Cur(p'))]_vars

\* A seat acted, folded, and its End Turn arrived afterwards in the same hand.
C31_Witness ==
    /\ p.currentHand # <<>>
    /\ \E i, j, k \in 1..Len(log) :
          /\ i < j /\ j < k
          /\ log[i].kind = "EndTurn" /\ log[j].kind = "Folded" /\ log[k].kind = "EndTurn"
          /\ log[i].seat = log[j].seat /\ log[j].seat = log[k].seat
          /\ log[k].amount > 0
          /\ \A n \in i..k : log[n].kind # "NewGame"

\* ------------------------------------------------------------------ C32
PFRSeats(h) == {s \in DOMAIN h.Players : h.Players[s].PFR}
ThreeBetSeats(h) == {s \in DOMAIN h.Players : h.Players[s].ThreeBet}

\* Seat s made a pre-flop bet or raise before which no seat bet or raised.
FirstAggressor(h, s) ==
    \E i \in PreflopActs(h, s, Aggressive) :
        ~RaisedBefore(h, DOMAIN h.Players, h.Players[s].Actions[i].Timestamp)

\* C32: in every finalized hand at most one seat has PFR, at most one seat
\* has three-bet, and a seat with PFR made the first aggressive pre-flop
\* action of the hand.
C32_OneOpenerOneThreeBettor ==
    \A h \in FinalizedHands :
        /\ Cardinality(PFRSeats(h)) <= 1
        /\ Cardinality(ThreeBetSeats(h)) <= 1
        /\ \A s \in PFRSeats(h) : FirstAggressor(h, s)

\* ------------------------------------------------------------------ C33
\* The seat after s in the circle of the seats of S in ascending order.
SeatAfter(S, s) ==
    IF \E t \in S : t > s
    THEN CHOOSE t \in S : t > s /\ \A u \in S : u > s => t <= u
    ELSE CHOOSE t \in S : \A u \in S : t <= u

\* The seats of the blind lines of the given kind ingested during hand h.
PostedBy(h, kind) == {log[i].seat : i \in {j \in LinesOf(h) : log[j].kind = kind}}

TableRow(n) ==
    CASE n = 2 -> <<"SB", "BTN">>
      [] n = 3 -> <<"SB", "BB", "BTN">>
      [] n = 4 -> <<"SB", "BB", "UTG", "BTN">>
      [] n = 5 -> <<"SB", "BB", "UTG", "MP", "BTN">>
      [] n = 6 -> <<"SB", "BB", "UTG", "HJ", "CO", "BTN">>
      [] n = 7 -> <<"SB", "BB", "UTG", "UTG+1", "HJ", "CO", "BTN">>
      [] n = 8 -> <<"SB", "BB", "UTG", "UTG+1", "MP", "HJ", "CO", "BTN">>

\* The i-th seat of S counted from s in ascending order around the circle.
RECURSIVE NthFrom(_, _, _)
NthFrom(S, s, i) == IF i = 1 THEN s ELSE NthFrom(S, SeatAfter(S, s), i - 1)

\* C34: in a finalized hand with both blinds known and n active seats,
\* 2 <= n <= 8, the i-th seat of the sorted active seats rotated to the SB
\* seat has the i-th label of the table row for n; with a blind unknown
\* every position is unknown.
C34_PositionsFollowTable ==
    \A h \in FinalizedHands :
        LET act == {h.ActiveSeats[i] : i \in 1..Len(h.ActiveSeats)}
            n == Cardinality(act)
        IN /\ (h.SBSeat >= 0 /\ h.BBSeat >= 0 /\ n >= 2 /\ n <= 8) =>
                 \A i \in 1..n :
                     h.Players[NthFrom(act, h.SBSeat, i)].Position = TableRow(n)[i]
           /\ (h.SBSeat < 0 \/ h.BBSeat < 0) =>
                 \A s \in DOMAIN h.Players : h.Players[s].Position = PosUnknown

\* The six-seat table with SB on seat 5 was played: seat 2 is the hijack.
C34_Witness ==
    /\ Played(FullTable(6, 5))
    /\ fin[1].NumPlayers = 6
    /\ fin[1].Players[2].Position = PosHJ

\* ------------------------------------------------------------------ C35
\* A line of the given kind was ingested during hand h.
SeenIn(h, kind) == \E i \in LinesOf(h) : log[i].kind = kind

\* C35: the win type of a finalized hand is fold if a fold-winner line was
\* seen in the hand, before or after any showdown-winner line; otherwise
\* showdown if a showdown-winner line was seen; otherwise showdown with 3 or
\* more community cards and fold with fewer.
C35_WinType ==
    \A h \in FinalizedHands :
        h.WinType = (IF SeenIn(h, "PotManager") THEN "fold"
                     ELSE IF SeenIn(h, "PotWinner") THEN "showdown"
                     ELSE IF Len(h.CommunityCards) >= 3 THEN "showdown"
                     ELSE "fold")

\* A finalized hand in which a showdown-winner line came before a
\* fold-winner line.
C35_Witness ==
    \E h \in FinalizedHands : \E i, j \in LinesOf(h) :
        i < j /\ log[i].kind = "PotWinner" /\ log[j].kind = "PotManager"

\* ------------------------------------------------------------------ C36
\* C36: the hand in progress and every finalized hand hold at most 5
\* community cards.
C36_AtMostFiveCommunityCards ==
    /\ p.currentHand # <<>> => Len(Cur(p).CommunityCards) <= 5
    /\ \A h \in FinalizedHands : Len(h.CommunityCards) <= 5

\* ------------------------------------------------- opportunity analyzer
\* The (seat, index) pairs of the non-blind pre-flop actions of h.
seqItems(h) ==
    UNION {{<<s, i>> : i \in {j \in 1..Len(h.Players[s].Actions) :
                               /\ h.Players[s].Actions[j].Street = StreetPreFlop
                               /\ h.Players[s].Actions[j].Action \notin
                                     {ActionBlindSB, ActionBlindBB}}} :
              s \in DOMAIN h.Players}

\* The order the insertion sort leaves: by timestamp, then by seat; the
\* actions of one seat keep the order of the seat's list.
seqBefore(h, x, y) ==
    LET tx == h.Players[x[1]].Actions[x[2]].Timestamp
        ty == h.Players[y[1]].Actions[y[2]].Timestamp
    IN \/ tx < ty
       \/ tx = ty /\ x[1] < y[1]
       \/ tx = ty /\ x[1] = y[1] /\ x[2] < y[2]

RECURSIVE seqSorted(_, _)
seqSorted(h, S) ==
    IF S = {} THEN <<>>
    ELSE LET x == CHOOSE m \in S : \A y \in S \ {m} : seqBefore(h, m, y)
         IN <<[seat |-> x[1], act |-> h.Players[x[1]].Actions[x[2]]]>>
            \o seqSorted(h, S \ {x})

preflopActionSequence(h) == seqSorted(h, seqItems(h))

isAggressivePreflop(a) == a \in {ActionBet, ActionRaise, ActionAllIn}

\* The loop of hasSqueezeOpportunityApprox over the rest of the sequence.
RECURSIVE squeezeLoop(_, _, _, _, _)
squeezeLoop(seq, seat, openSeen, openCalls, raiseCount) ==
    IF seq = <<>> THEN FALSE
    ELSE IF Head(seq).seat = seat THEN openSeen /\ openCalls > 0 /\ raiseCount = 1
    ELSE IF isAggressivePreflop(Head(seq).act.Action)
    THEN (IF raiseCount = 0 THEN squeezeLoop(Tail(seq), seat, TRUE, openCalls, 1) ELSE FALSE)
    ELSE squeezeLoop(Tail(seq), seat, openSeen,
                     IF openSeen /\ Head(seq).act.Action = ActionCall
                     THEN openCalls + 1 ELSE openCalls,
                     raiseCount)

hasSqueezeOpportunityApprox(pi, h) ==
    squeezeLoop(preflopActionSequence(h), pi.SeatID, FALSE, 0, 0)

\* ----------------------------------------- specification: analyzer inputs
AnalyzerSeats == 1..MaxAnalyzerSeat

\* The log has one-second timestamps: a line carries the second of the line
\* before it or a later one.
AtTimes(q) == {q.lastTimestamp, q.lastTimestamp + 1}

BlindAt ==
    /\ CanIngest
    /\ \E s \in AnalyzerSeats, t \in AtTimes(p) :
          Ingest(Line("BB", t, s, 20, NoCards, ""))

EndTurnAt ==
    /\ CanIngest
    /\ \E s \in AnalyzerSeats, a \in {0, 20, 60}, t \in AtTimes(p) :
          Ingest(Line("EndTurn", t, s, a, NoCards, ""))

FoldedAt ==
    /\ CanIngest
    /\ \E s \in AnalyzerSeats, t \in AtTimes(p) :
          Ingest(Line("Folded", t, s, 0, NoCards, ""))

InitAnalyzer ==
    /\ Started(<<Line("NewGame", 1, 0, 0, NoCards, "")>>)
    /\ fin = <<>>
    /\ budget = MaxAnalyzerLines
    /\ eof = FALSE
    /\ InitOthers

NextAnalyzer ==
    \/ BlindAt
    \/ EndTurnAt
    \/ FoldedAt

SpecAnalyzer == InitAnalyzer /\ [][NextAnalyzer]_vars

\* ------------------------------------------------------------------ C37
\* The non-blind pre-flop actions in the order the parser saw them.
Observed37(q) ==
    SelectSeq(q.pfActions, LAMBDA a : a.action \notin {ActionBlindSB, ActionBlindBB})

\* C37: the sequence the analyzer replays for the hand in progress lists the
\* non-blind pre-flop actions in the order in which the parser observed
\* them.
C37_ReplayKeepsLogOrder ==
    p.currentHand # <<>> =>
        [i \in 1..Len(preflopActionSequence(Cur(p))) |->
            pfAction(preflopActionSequence(Cur(p))[i].seat,
                     preflopActionSequence(Cur(p))[i].act.Action,
                     preflopActionSequence(Cur(p))[i].act.Amount)]
        = Observed37(p)

\* ------------------------------------------------------------------ C38
\* The place of the first action of seat s in the sequence, 0 if none.
FirstTurn(seq, s) ==
    IF \E i \in 1..Len(seq) : seq[i].seat = s
    THEN CHOOSE i \in 1..Len(seq) : seq[i].seat = s /\ \A j \in 1..(i - 1) : seq[j].seat # s
    ELSE 0

\* C38: a seat that acts pre-flop has a squeeze opportunity exactly when the
\* non-blind pre-flop actions before its first action hold exactly one
\* bet/raise/all-in and at least one call, wherever the call stands.
C38_SqueezeOpportunity ==
    p.currentHand # <<>> =>
        \A s \in DOMAIN Cur(p).Players :
            LET seq == preflopActionSequence(Cur(p))
                k == FirstTurn(seq, s)
            IN k > 0 =>
                 (hasSqueezeOpportunityApprox(Cur(p).Players[s], Cur(p)) <=>
                    /\ Cardinality({i \in 1..(k - 1) : isAggressivePreflop(seq[i].act.Action)}) = 1
                    /\ \E i \in 1..(k - 1) : seq[i].act.Action = ActionCall)

\* ------------------------------------------------------------ statistics
hasCallOnStreet(pi, street) ==
    \E i \in 1..Len(pi.Actions) :
        pi.Actions[i].Street = street /\ pi.Actions[i].Action = ActionCall

\* Mutant: an own three-bet no longer counts as an opportunity.
hasThreeBetOpportunityApprox_NoShortcut(pi, h) ==
    IF \E s \in DOMAIN h.Players : s # pi.SeatID /\ h.Players[s].PFR
    THEN hasCallOnStreet(pi, StreetPreFlop) \/ pi.FoldedPF
    ELSE FALSE

hasThreeBetOpportunityApprox(pi, h) ==
    IF pi.ThreeBet THEN TRUE
    ELSE IF \E s \in DOMAIN h.Players : s # pi.SeatID /\ h.Players[s].PFR
    THEN hasCallOnStreet(pi, StreetPreFlop) \/ pi.FoldedPF
    ELSE FALSE

hasFoldToThreeBetOpportunityApprox(pi, h) ==
    IF pi.FoldTo3Bet THEN TRUE
    ELSE IF ~pi.PFR THEN FALSE
    ELSE \E s \in DOMAIN h.Players : s # pi.SeatID /\ h.Players[s].ThreeBet

RECURSIVE sumAmounts(_)
sumAmounts(acts) ==
    IF acts = <<>> THEN 0 ELSE Head(acts).Amount + sumAmounts(Tail(acts))

investedAmount(h, seat) ==
    IF seat \notin DOMAIN h.Players THEN 0 ELSE sumAmounts(h.Players[seat].Actions)

NewPositionStats(pos) ==
    [ Position |-> pos, Hands |-> 0, Won |-> 0, VPIP |-> 0, PFR |-> 0,
      ThreeBetOpp |-> 0, ThreeBet |-> 0, FoldTo3BetOpp |-> 0, FoldTo3Bet |-> 0,
      Showdowns |-> 0, WonShowdowns |-> 0, Invested |-> 0, PotWon |-> 0 ]

ensurePositionStats(s, pos) ==
    IF pos \in DOMAIN s.ByPosition THEN s
    ELSE [s EXCEPT !.ByPosition = MapPut(s.ByPosition, pos, NewPositionStats(pos))]

NewStats ==
    [ TotalHands |-> 0, WonHands |-> 0, VPIPHands |-> 0, PFRHands |-> 0,
      ThreeBetOpportunities |-> 0, ThreeBetHands |-> 0,
      FoldTo3BetOpportunities |-> 0, FoldTo3BetHands |-> 0,
      ShowdownHands |-> 0, WonShowdowns |-> 0,
      TotalPotWon |-> 0, TotalInvested |-> 0, ByPosition |-> EmptyMap ]

Count(b) == IF b THEN 1 ELSE 0

\* The body of Calculate's loop for a hand that passed the filters.
countHand(s0, h, handSeat) ==
    LET li == h.Players[handSeat]
        pos == li.Position
        s == ensurePositionStats(s0, pos)
        ps == s.ByPosition[pos]
        invested == investedAmount(h, handSeat)
        opp3 == Count(hasThreeBetOpportunityApprox(li, h))
        oppF == Count(hasFoldToThreeBetOpportunityApprox(li, h))
    IN [s EXCEPT
          !.TotalHands = @ + 1,
          !.TotalPotWon = @ + li.PotWon,
          !.TotalInvested = @ + invested,
          !.WonHands = @ + Count(li.Won),
          !.VPIPHands = @ + Count(li.VPIP),
          !.PFRHands = @ + Count(li.PFR),
          !.ThreeBetOpportunities = @ + opp3,
          !.ThreeBetHands = @ + Count(li.ThreeBet),
          !.FoldTo3BetOpportunities = @ + oppF,
          !.FoldTo3BetHands = @ + Count(li.FoldTo3Bet),
          !.ShowdownHands = @ + Count(li.ShowedDown),
          !.WonShowdowns = @ + Count(li.ShowedDown /\ li.Won),
          !.ByPosition[pos] =
              [ps EXCEPT
                 !.Hands = @ + 1,
                 !.Invested = @ + invested,
                 !.PotWon = @ + li.PotWon,
                 !.Won = @ + Count(li.Won),
                 !.VPIP = @ + Count(li.VPIP),
                 !.PFR = @ + Count(li.PFR),
                 !.ThreeBetOpp = @ + opp3,
                 !.ThreeBet = @ + Count(li.ThreeBet),
                 !.FoldTo3BetOpp = @ + oppF,
                 !.FoldTo3Bet = @ + Count(li.FoldTo3Bet),
                 !.Showdowns = @ + Count(li.ShowedDown),
                 !.WonShowdowns = @ + Count(li.ShowedDown /\ li.Won)]]

\* Calculate over hands[i..]; eligible holds the places of the hands for
\* which IsStatsEligible answers true.
RECURSIVE calculateFrom(_, _, _, _, _)
calculateFrom(s, hands, i, localSeat, eligible) ==
    IF i > Len(hands) THEN s
    ELSE LET h == hands[i]
             handSeat == IF h.LocalPlayerSeat >= 0 THEN h.LocalPlayerSeat ELSE localSeat
         IN IF \/ ~h.IsComplete
               \/ i \notin eligible
               \/ handSeat < 0
               \/ handSeat \notin DOMAIN h.Players
            THEN calculateFrom(s, hands, i + 1, localSeat, eligible)
            ELSE calculateFrom(countHand(s, h, handSeat), hands, i + 1, localSeat, eligible)

Calculate(hands, localSeat, eligible) ==
    calculateFrom(NewStats, hands, 1, localSeat, eligible)

\* --------------------------------------- specification: hands for the stats
StatsPrefix ==
    <<Line("NewGame", 1, 0, 0, NoCards, ""), Line("SB", 2, 1, 1, NoCards, "")>>

InitStats ==
    /\ Started(StatsPrefix)
    /\ fin = <<>>
    /\ budget = MaxStatsLines
    /\ eof = FALSE
    /\ InitOthers

NextStats ==
    \/ PlayerEndTurn
    \/ PlayerFolded
    \/ ShowHoleCards
    \/ PotWinner
    \/ NewGame

SpecStats == InitStats /\ [][NextStats]_vars

\* ------------------------------------------------------------------ C39
RECURSIVE SumHands(_, _)
SumHands(byPos, keys) ==
    IF keys = {} THEN 0
    ELSE LET k == CHOOSE x \in keys : TRUE
         IN byPos[k].Hands + SumHands(byPos, keys \ {k})

CountersConsistent(s) ==
    /\ s.WonHands <= s.TotalHands
    /\ s.VPIPHands <= s.TotalHands
    /\ s.PFRHands <= s.TotalHands
    /\ s.ShowdownHands <= s.TotalHands
    /\ s.WonShowdowns <= s.ShowdownHands
    /\ s.ThreeBetHands <= s.ThreeBetOpportunities
    /\ s.FoldTo3BetHands <= s.FoldTo3BetOpportunities
    /\ SumHands(s.ByPosition, DOMAIN s.ByPosition) = s.TotalHands

LogFiles ==
    [ a |-> LocalSeatPrefix,
      b |-> <<Line("NewGame", 1, 0, 0, NoCards, ""), Line("PotManager", 2, 2, 1, NoCards, "")>> ]

\* Mutant: the three fields are assigned before the error of the upsert is
\* looked at.
changeLogFileCommit_BeforeErrorCheck(s, next, path, failed) ==
    [s EXCEPT !.parser = next, !.logPath = path, !.localSeat = GetLocalSeat(next)]

\* What the end of ChangeLogFile leaves in the service: nothing new on the
\* error return, the three fields together under the lock otherwise.
changeLogFileCommit(s, next, path, failed) ==
    IF failed THEN s
    ELSE [s EXCEPT !.parser = next, !.logPath = path, !.localSeat = GetLocalSeat(next)]

OnlyCall == UNCHANGED <<p, fin, budget, eof, fed, app, log, objs, held>>

\* A return of the call: the frame keeps what the service held at that
\* moment.
Returned(c, ret, s) ==
    [c EXCEPT !.pc = "idle", !.ret = ret, !.after = <<s>>, !.fedAfter = Len(fed)]

\* os.Open: the call starts; without the file it returns the error.
ChangeLogFileOpen ==
    /\ clf.pc = "idle" /\ clf.calls < MaxChanges
    /\ \E path \in DOMAIN LogFiles, ok \in BOOLEAN :
          LET c == [clf EXCEPT !.path = path, !.calls = @ + 1, !.next = NewParser,
                               !.before = <<svc>>, !.fedBefore = Len(fed)]
          IN clf' = IF ok THEN [c EXCEPT !.pc = "opened", !.ret = "none"]
                    ELSE Returned(c, "error", svc)
    /\ svc' = svc
    /\ OnlyCall

\* The scanner loop over a fresh parser, then scanner.Err.
ChangeLogFileScan ==
    /\ clf.pc = "opened"
    /\ \E ok \in BOOLEAN :
          clf' = IF ok
                 THEN [clf EXCEPT !.pc = "scanned",
                                  !.next = ParseLines(NewParser, LogFiles[clf.path])]
                 ELSE Returned(clf, "error", svc)
    /\ svc' = svc
    /\ OnlyCall

\* repo.UpsertHands and its error return.
ChangeLogFileUpsert ==
    /\ clf.pc = "scanned"
    /\ \E ok \in BOOLEAN :
          IF ok
          THEN svc' = svc /\ clf' = [clf EXCEPT !.pc = "saved"]
          ELSE /\ svc' = changeLogFileCommit(svc, clf.next, clf.path, TRUE)
               /\ clf' = Returned(clf, "error", svc')
    /\ OnlyCall

\* The locked assignment of the three fields and the nil return.
ChangeLogFileSwap ==
    /\ clf.pc = "saved"
    /\ svc' = changeLogFileCommit(svc, clf.next, clf.path, FALSE)
    /\ clf' = Returned(clf, "nil", svc')
    /\ OnlyCall

InitService ==
    /\ svc = NewService
    /\ fed = <<>>
    /\ Started(<<>>) /\ fin = <<>> /\ budget = 0 /\ eof = FALSE /\ app = NewApp
    /\ held = NoHeld /\ clf = NoCallFrame

\* ImportLines calls of other goroutines, between the steps of the call.
ImportMeanwhile ==
    /\ Len(Flatten(fed)) < MaxServiceLines
    /\ \E b \in BatchesOf(MaxBatch) :
          /\ Len(Flatten(fed)) + Len(b) <= MaxServiceLines
          /\ LET lines == Stamp(b, svc.parser.lastTimestamp)
             IN /\ svc' = importLines(svc, lines)
                /\ fed' = Append(fed, lines)
    /\ UNCHANGED <<p, fin, budget, eof, app, log, objs, held, clf>>

NextService ==
    \/ ImportMeanwhile
    \/ ChangeLogFileOpen
    \/ ChangeLogFileScan
    \/ ChangeLogFileUpsert
    \/ ChangeLogFileSwap

SpecService == InitService /\ [][NextService]_vars

\* ------------------------------------------------------------------ C40
\* The service after the ImportLines calls fed[i..j], started from s.
RECURSIVE Replay(_, _, _)
Replay(s, i, j) ==
    IF i > j THEN s ELSE Replay(importLines(s, fed[i]), i + 1, j)

\* C40 as stated: when ChangeLogFile returns an error, the service's parser,
\* log path and local seat are what they were before the call, also when
\* ImportLines calls ran during it.
C40_ErrorLeavesServiceAsBefore ==
    clf.ret = "error" => clf.after = clf.before

\* C40 as amended: while ChangeLogFile runs and when it returns an error, the
\* service's parser, log path and local seat are what they were before the
\* call, changed only by the ImportLines calls that ran during it; a call
\* that returns nil has replaced the three together by the new parser, the
\* path and the new parser's local seat.
C40_CallWritesOnlyOnSuccess ==
    /\ clf.pc # "idle" =>
          svc = Replay(clf.before[1], clf.fedBefore + 1, Len(fed))
    /\ clf.ret = "error" =>
          clf.after[1] = Replay(clf.before[1], clf.fedBefore + 1, clf.fedAfter)
    /\ clf.ret = "nil" =>
          clf.after[1] = [parser |-> clf.next, logPath |-> clf.path,
                          localSeat |-> GetLocalSeat(clf.next)]

\* A call failed in UpsertHands after a file with a local seat was read
\* and an ImportLines call ran meanwhile.
C40_Witness ==
    /\ clf.ret = "error" /\ clf.pc = "idle"
    /\ GetLocalSeat(clf.next) = 1
    /\ clf.fedAfter > clf.fedBefore
    /\ clf.after[1].logPath = clf.before[1].logPath

====
